---- MODULE Spec2Model ----
(***************************************************************************)
(* A model of the flawlessgrid API service (api-service/server.ts): the    *)
(* date-seeded selector, the grid cache with its optional durable store,   *)
(* the access token manager, the search rate limiter and the two request   *)
(* handlers.                                                               *)
(***************************************************************************)
EXTENDS Integers, Sequences, FiniteSets, TLC

VARIABLES
    \* --- selectGamesForDate, run step by step by independent processes
    selArgs,        \* the (games, date) both processes are invoked with
    selPc,          \* process -> "idle" | "loop" | "done"
    selSt,          \* process -> locals of the running invocation
    selCalls,       \* process -> invocations started so far
    selResult,      \* process -> value returned by its last invocation
    selFirst,       \* the first value any invocation returned, or NoResult
    \* --- the clock
    now,            \* Date.now(), in milliseconds since the model's start
    ticks,          \* clock advances so far
    \* --- the rate limiter
    searchRateLimit,\* Map<string, {count, resetTime}>, a function on the ids it holds
    rlWindow,       \* observer: client id -> [start, calls] of the id's current window
    rlLast,         \* observer: [ip, limited] of the last isRateLimited call
    \* --- the access token manager
    accessToken,    \* '' or the cached bearer token
    tokenExpiry,    \* instant before which accessToken is served from the cache
    tokLast,        \* observer: the last completed getAccessToken call
    \* --- requests being handled, and the upstream
    reqs,           \* slot -> the handler invocation suspended at an await
    lastSearch,     \* observer: the last /api/search request and its validation
    searchQuery,    \* the query under test, sent by the clients of a behaviour
    \* --- the grid cache
    today,          \* new Date().toISOString().slice(0, 10), as a date index
    cachedGrid,     \* the memory slot {date, games}
    dbConfigured,   \* db !== null (DATABASE_URL is set)
    dbRows,         \* the daily_grid table: date -> games, on the dates stored
    dbInserts,      \* INSERT statements sent and not yet executed
    restarts,       \* process restarts so far
    gameCount,      \* observer: /api/games requests received so far
    lastResp,       \* observer: the last /api/games response
    firstServed,    \* observer: date -> games of the first 200 response for it
    atRestart,      \* observer: responses sent before the last restart
    twin,           \* two servers given the same requests: with and without a store
    view,           \* the refs of the game view
    closeTimers,    \* pending setTimeout callbacks of correct guesses
    localStorage,   \* the saved progress of the grid shown
    searchTimer,    \* the debounce timer of the search input is pending
    searchFetches,  \* queries of the search requests the view is waiting for
    calDate,        \* a calendar date on or after the launch date
    calDays,        \* observer: days gone by from the launch date to calDate
    gridNumber,     \* <<the grid number computed for calDate>>, <<>> before that
    title,          \* the name of a game, a sequence of characters
    placeholder,    \* <<the placeholder computed for title>>, <<>> before that
    igdbData,       \* igdbRes.data of a request, a list of game names
    uniquePool,     \* <<the deduplicated pool>>, <<>> before the loop has run
    screenshotIndices,     \* Map from game id to the screenshot shown in its cell
    modalScreenshotIndex,  \* the screenshot shown in the modal
    shotRun,        \* observer: the cycling calls made and the current run of them
    unswept         \* observer: the rate-limit map as it is when no sweep ever runs

selVars == <<selArgs, selPc, selSt, selCalls, selResult, selFirst>>

clockVars == <<now, ticks>>

rateVars == <<searchRateLimit, rlWindow, rlLast>>

tokenVars == <<accessToken, tokenExpiry, tokLast>>

reqVars == <<reqs, lastSearch, searchQuery>>

gridVars ==
    <<today, cachedGrid, dbConfigured, dbRows, dbInserts, restarts, atRestart>>

gameObs == <<gameCount, lastResp, firstServed>>

serverVars == <<clockVars, rateVars, tokenVars, reqVars, gridVars, gameObs>>

searchVars == <<searchTimer, searchFetches>>

viewVars == <<view, closeTimers, localStorage, searchVars>>

calVars == <<calDate, calDays, gridNumber>>

titleVars == <<title, placeholder>>

dedupVars == <<igdbData, uniquePool>>

shotVars == <<screenshotIndices, modalScreenshotIndex, shotRun>>

sweepVars == <<unswept>>

offServer == <<twin, viewVars, calVars, titleVars, dedupVars, shotVars, sweepVars>>

vars == <<selVars, clockVars, rateVars, tokenVars, reqVars, gridVars, gameObs,
          offServer>>

-----------------------------------------------------------------------------
(* Bounds of the model *)

MaxPool == 10           \* longest candidate pool handed to the selector
MaxInvocations == 2     \* invocations of the selector per process
MaxIterations == 30     \* loop iterations the model follows before giving up

MaxTicks == 2           \* clock advances in one behaviour
MaxWindowCalls == 32    \* isRateLimited calls per client id and window
MaxQueryLen == 3        \* characters in a search query
MaxSearchRequests == 2  \* /api/search requests in one behaviour
MaxGameRequests == 2    \* /api/games requests in one behaviour
MaxRestarts == 1        \* process restarts in one behaviour
MaxTwinRequests == 3    \* requests given to the pair of servers
MaxCloseTimers == 1     \* pending timers of correct guesses
MaxGuessCount == 6      \* incorrectGuesses the model follows
MaxDays == 1200         \* days after the launch date the calendar is followed
MaxTitleLen == 4        \* characters in a game title
MaxModalCells == 2      \* cells the player of the search behaviours clicks
MaxSearchFetches == 1   \* search requests of the view in flight
MaxFetched == 5         \* games in a catalog answer handed to the dedup loop
MaxNames == 3           \* different names in such an answer
MaxShots == 3           \* screenshots of a game
MaxShotCalls == 4       \* cycling calls

(* Program constants *)

DefaultCount == 9       \* count: number = 9
RateWindowMs == 60000   \* resetTime: now + 60_000
RateCeiling == 30       \* record.count >= 30
MinQueryLen == 2        \* length < 2
ExpiryMarginSec == 60   \* res.data.expires_in - 60
GuessLimit == 5         \* incorrectGuesses.value >= 5
GridSize == 9           \* flippedCells.value.size === 9

-----------------------------------------------------------------------------
(* Dates.  A date is the index of a calendar date string:                  *)
(*   1 = "2025-06-01" (getTime() = 1748736000000)                          *)
(*   2 = "2025-06-02" (getTime() = 1748822400000)                          *)
Dates == {1, 2}

Procs == {1, 2}

(* Math.sin(seed) * 10000 minus its floor, in millionths (rounded down),   *)
(* for seed = getTime(date) + k, k = 0..39, evaluated in IEEE-754 doubles. *)
(* Row d is date d; entry k+1 is offset k.                                 *)
SinTable ==
  << <<342949, 473061, 19203, 898133, 889119, 891882, 767132, 825509, 13494,
       859205, 482422, 562002, 187855, 45884, 634318, 762876, 110030, 160296,
       254841, 880321, 710781, 814381, 998378, 229983, 353837, 272957, 874861,
       82493, 292587, 279765, 365477, 351833, 384284, 951942, 594015, 73480,
       730425, 418697, 46366, 842249>>,
     <<646328, 346196, 24958, 175105, 915615, 524793, 426738, 250447, 108120,
       133867, 858470, 993151, 657673, 719276, 711065, 674075, 909794, 254174,
       394913, 23222, 110676, 542292, 486092, 260733, 324661, 404325, 940248,
       752622, 934055, 169316, 213895, 152018, 773280, 690794, 575601, 171274,
       133856, 658217, 234082, 727702>> >>

(* seededRandom(dateNum + seedOffset); the seed is kept as the pair        *)
(* <<date, seedOffset>> because dateNum does not fit a 32-bit integer.     *)
seededRandom(seed) == SinTable[seed[1]][seed[2] + 1]

(* Math.floor(random * games.length), an index 0 .. games.length - 1 *)
IndexOf(random, length) == (random * length) \div 1000000

(* games[idx]: reading an array outside its bounds yields undefined *)
Undefined == 0

GameAt(games, idx) ==
    IF idx + 1 \in DOMAIN games THEN games[idx + 1] ELSE Undefined

-----------------------------------------------------------------------------
(* selectGamesForDate: locals, loop condition, loop body *)

SelectLocals == [selectedGames |-> <<>>, usedIndexes |-> {}, seedOffset |-> 0]

(* Variant: seedOffset kept in a module-level variable, not reset per call *)
SelectStartStaleOffset(p) ==
    [SelectLocals EXCEPT !.seedOffset = selSt[p].seedOffset]

(* The locals of a new invocation by process p *)
SelectStart(p) == SelectLocals

(* Variant: the loop stops only on count, not when every index was visited *)
SelectLoopCondCountOnly(games, count, st) ==
    Len(st.selectedGames) < count

SelectLoopCond(games, count, st) ==
    /\ Len(st.selectedGames) < count
    /\ Cardinality(st.usedIndexes) < Len(games)

(* Variant: the index is pushed without the usedIndexes check *)
SelectLoopBodyNoCheck(games, date, st) ==
    LET random == seededRandom(<<date, st.seedOffset>>)
        idx    == IndexOf(random, Len(games))
    IN  [selectedGames |-> Append(st.selectedGames, GameAt(games, idx)),
         usedIndexes   |-> st.usedIndexes \cup {idx},
         seedOffset    |-> st.seedOffset + 1]

(* Variant: a rejected index costs two offsets *)
SelectLoopBodySkips(games, date, st) ==
    LET random == seededRandom(<<date, st.seedOffset>>)
        idx    == IndexOf(random, Len(games))
    IN  [selectedGames |-> IF idx \notin st.usedIndexes
                           THEN Append(st.selectedGames, GameAt(games, idx))
                           ELSE st.selectedGames,
         usedIndexes   |-> st.usedIndexes \cup {idx},
         seedOffset    |-> IF idx \notin st.usedIndexes
                           THEN st.seedOffset + 1 ELSE st.seedOffset + 2]

SelectLoopBody(games, date, st) ==
    LET random == seededRandom(<<date, st.seedOffset>>)
        idx    == IndexOf(random, Len(games))
    IN  [selectedGames |-> IF idx \notin st.usedIndexes
                           THEN Append(st.selectedGames, GameAt(games, idx))
                           ELSE st.selectedGames,
         usedIndexes   |-> st.usedIndexes \cup {idx},
         seedOffset    |-> st.seedOffset + 1]

RECURSIVE SelectRun(_, _, _, _)
SelectRun(games, date, count, st) ==
    IF SelectLoopCond(games, count, st) /\ st.seedOffset < MaxIterations
    THEN SelectRun(games, date, count, SelectLoopBody(games, date, st))
    ELSE st

selectGamesForDate(games, date, count) ==
    SelectRun(games, date, count, SelectLocals).selectedGames

-----------------------------------------------------------------------------
(* Candidate pools handed to the selector.  A game is its name, a number.  *)
(* PoolOf(n, m) has n games named 1..m cyclically: names are distinct      *)
(* exactly when n <= m.                                                    *)
PoolOf(n, m) == [i \in 1..n |-> ((i - 1) % m) + 1]

SelectorPools ==
    {PoolOf(n, MaxPool) : n \in 0..MaxPool} \cup {PoolOf(n, 3) : n \in 4..MaxPool}

DistinctNames(games) ==
    \A i, j \in 1..Len(games) : games[i] = games[j] => i = j

NoResult == <<-1>>

-----------------------------------------------------------------------------
(* The clock.  Time passes in steps of one millisecond or one window. *)
TickSteps == {1, RateWindowMs}

-----------------------------------------------------------------------------
(* The rate limiter *)

(* Strings the handlers compute on are sequences of characters *)
Ip1 == <<"1">>
Ip2 == <<"2">>
UnknownIp == <<"u", "n", "k", "n", "o", "w", "n">>

ClientIds == {Ip1, Ip2, UnknownIp}

NoWindow == [start |-> -1, calls |-> 0, refused |-> FALSE]

NoCall == [called |-> FALSE, ip |-> << >>, limited |-> FALSE]

(* Variant: the window is taken to have passed at resetTime itself *)
WindowPassedAtReset(record, t) == t >= record.resetTime

(* now > record.resetTime *)
WindowPassed(record, t) == t > record.resetTime

(* Variant: the ceiling is tested after the increment *)
isRateLimitedOffByOne(map, ip, t) ==
    IF ip \notin DOMAIN map \/ WindowPassed(map[ip], t)
    THEN [map |-> [i \in DOMAIN map \cup {ip} |->
                     IF i = ip THEN [count |-> 1, resetTime |-> t + RateWindowMs]
                     ELSE map[i]],
          limited |-> FALSE]
    ELSE IF map[ip].count > RateCeiling
    THEN [map |-> map, limited |-> TRUE]
    ELSE [map |-> [map EXCEPT ![ip].count = @ + 1], limited |-> FALSE]

(* Variant: a limited call starts the window again *)
isRateLimitedExtends(map, ip, t) ==
    IF ip \notin DOMAIN map \/ WindowPassed(map[ip], t)
    THEN [map |-> [i \in DOMAIN map \cup {ip} |->
                     IF i = ip THEN [count |-> 1, resetTime |-> t + RateWindowMs]
                     ELSE map[i]],
          limited |-> FALSE]
    ELSE IF map[ip].count >= RateCeiling
    THEN [map |-> [map EXCEPT ![ip].resetTime = t + RateWindowMs],
          limited |-> TRUE]
    ELSE [map |-> [map EXCEPT ![ip].count = @ + 1], limited |-> FALSE]

(* Variant: a limited call is counted too *)
isRateLimitedCountsRefused(map, ip, t) ==
    IF ip \notin DOMAIN map \/ WindowPassed(map[ip], t)
    THEN [map |-> [i \in DOMAIN map \cup {ip} |->
                     IF i = ip THEN [count |-> 1, resetTime |-> t + RateWindowMs]
                     ELSE map[i]],
          limited |-> FALSE]
    ELSE [map |-> [map EXCEPT ![ip].count = @ + 1],
          limited |-> map[ip].count >= RateCeiling]

(* isRateLimited(ip) called at time t on the map: the map afterwards and   *)
(* the value returned.                                                     *)
(* Variant: a new window starts from an empty map *)
isRateLimitedClears(map, ip, t) ==
    IF ip \notin DOMAIN map \/ WindowPassed(map[ip], t)
    THEN [map |-> [i \in {ip} |-> [count |-> 1, resetTime |-> t + RateWindowMs]],
          limited |-> FALSE]
    ELSE IF map[ip].count >= RateCeiling
    THEN [map |-> map, limited |-> TRUE]
    ELSE [map |-> [map EXCEPT ![ip].count = @ + 1], limited |-> FALSE]

isRateLimited(map, ip, t) ==
    IF ip \notin DOMAIN map \/ WindowPassed(map[ip], t)
    THEN [map |-> [i \in DOMAIN map \cup {ip} |->
                     IF i = ip THEN [count |-> 1, resetTime |-> t + RateWindowMs]
                     ELSE map[i]],
          limited |-> FALSE]
    ELSE IF map[ip].count >= RateCeiling
    THEN [map |-> map, limited |-> TRUE]
    ELSE [map |-> [map EXCEPT ![ip].count = @ + 1], limited |-> FALSE]

(* Variant: a record is deleted at its reset instant already *)
SweepMapAtReset(map, t) ==
    [i \in {j \in DOMAIN map : ~WindowPassedAtReset(map[j], t)} |-> map[i]]

(* Variant: the callback deletes every record *)
SweepMapAll(map, t) == << >>

(* The setInterval callback: delete every record whose window has passed *)
SweepMap(map, t) ==
    [i \in {j \in DOMAIN map : ~WindowPassed(map[j], t)} |-> map[i]]

(* The observer's count of the calls of one client id, kept apart from the *)
(* map: a window opens with the first call of an id that has no open       *)
(* window and stays open until RateWindowMs have gone by since then;       *)
(* refused records that some call of the id was ever limited.              *)
ObserveCall(w, t, limited) ==
    IF w.start = -1 \/ t > w.start + RateWindowMs
    THEN [start |-> t, calls |-> 1, refused |-> w.refused \/ limited]
    ELSE [w EXCEPT !.calls = @ + 1, !.refused = @ \/ limited]

-----------------------------------------------------------------------------
(* The access token manager *)

Tokens == {"t1", "t2"}          \* res.data.access_token
ExpiresIn == {60, 120}          \* res.data.expires_in, in seconds

(* Variant: the comparison with the expiry is turned around *)
TokenCachedReversed(token, expiry, t) == token # "" /\ t > expiry

(* accessToken && Date.now() < tokenExpiry *)
TokenCached(token, expiry, t) == token # "" /\ t < expiry

(* Variant: the expiry is stored without the margin *)
ExpiryOfNoMargin(t, expiresIn) == t + expiresIn * 1000

(* Date.now() + (res.data.expires_in - 60) * 1000 *)
ExpiryOf(t, expiresIn) == t + (expiresIn - ExpiryMarginSec) * 1000

(* The observer's record of the last getAccessToken call that returned:   *)
(* when it was made, whether it exchanged credentials, the token it        *)
(* returned and the expiry stored when it returned.                        *)
NoTokenCall ==
    [start |-> 0, exchanged |-> FALSE, token |-> "", expiry |-> 0, ttl |-> 0]

(* ttl is the expires_in of the last exchange that has answered *)
TokenCall(start, exchanged, token, expiry, ttl) ==
    [start |-> start, exchanged |-> exchanged, token |-> token,
     expiry |-> expiry, ttl |-> ttl]

-----------------------------------------------------------------------------
(* Requests.  A slot holds one handler invocation between two awaits.      *)
Slots == {1, 2}

IdleReq ==
    [pc |-> "idle", kind |-> "", today |-> 0, query |-> << >>, tokStart |-> 0,
     dbErr |-> FALSE]

(* The first await of a handler after its token: the upstream call *)
UpstreamPc(kind) == IF kind = "games" THEN "fetch" ELSE "search"

FreeSlot(slot) ==
    /\ reqs[slot].pc = "idle"
    /\ \A other \in Slots : other < slot => reqs[other].pc # "idle"

(* await getAccessToken() by the handler invocation rec in slot: a cached  *)
(* token is returned at once and the upstream call is issued; otherwise    *)
(* the credential exchange is issued and the handler waits for it.         *)
AwaitToken(slot, rec) ==
    IF TokenCached(accessToken, tokenExpiry, now)
    THEN /\ reqs' = [reqs EXCEPT ![slot] =
                        [rec EXCEPT !.pc = UpstreamPc(rec.kind)]]
         /\ tokLast' = TokenCall(now, FALSE, accessToken, tokenExpiry,
                                 tokLast.ttl)
         /\ UNCHANGED <<accessToken, tokenExpiry>>
    ELSE /\ reqs' = [reqs EXCEPT ![slot] =
                        [rec EXCEPT !.pc = "exchange", !.tokStart = now]]
         /\ UNCHANGED <<accessToken, tokenExpiry, tokLast>>

(* Variant: a token stored meanwhile by another caller is kept *)
ExchangeOkKeepsToken(slot, token, expiresIn) ==
    /\ reqs[slot].pc = "exchange"
    /\ accessToken' = IF accessToken # "" THEN accessToken ELSE token
    /\ tokenExpiry' = ExpiryOf(now, expiresIn)
    /\ tokLast' = TokenCall(reqs[slot].tokStart, TRUE, token,
                            ExpiryOf(now, expiresIn), expiresIn)
    /\ reqs' = [reqs EXCEPT ![slot].pc = UpstreamPc(reqs[slot].kind),
                            ![slot].tokStart = 0]

(* The credential exchange answers: the token and expiry are stored and    *)
(* the handler goes on to its upstream call.                               *)
ExchangeOk(slot, token, expiresIn) ==
    /\ reqs[slot].pc = "exchange"
    /\ accessToken' = token
    /\ tokenExpiry' = ExpiryOf(now, expiresIn)
    /\ tokLast' = TokenCall(reqs[slot].tokStart, TRUE, token,
                            ExpiryOf(now, expiresIn), expiresIn)
    /\ reqs' = [reqs EXCEPT ![slot].pc = UpstreamPc(reqs[slot].kind),
                            ![slot].tokStart = 0]

-----------------------------------------------------------------------------
(* GET /api/games: the grid cache, the catalog and the responses *)

(* { date: '', games: [] } *)
EmptyGrid == [date |-> 0, games |-> << >>]

(* What the catalog may answer: igdbRes.data, a list of games.  The empty  *)
(* list, five games, ten games, and the ten games after a change of their  *)
(* rating counts (another order, two names listed twice).                  *)
CatalogPools ==
    {<< >>, PoolOf(5, 5), PoolOf(10, 10), <<2, 1>> \o PoolOf(10, 10)}

RECURSIVE UniqueFromKeepLast(_, _, _)
(* Variant: a game is kept when its name does not come again *)
UniqueFromKeepLast(games, unique, seenNames) ==
    IF games = << >> THEN unique
    ELSE IF \A i \in DOMAIN Tail(games) : Tail(games)[i] # Head(games)
    THEN UniqueFromKeepLast(Tail(games), Append(unique, Head(games)), seenNames)
    ELSE UniqueFromKeepLast(Tail(games), unique, seenNames)

RECURSIVE UniqueFrom(_, _, _)
(* The loop over allGames with uniqueGames and seenNames *)
UniqueFrom(allGames, uniqueGames, seenNames) ==
    IF allGames = << >> THEN uniqueGames
    ELSE IF Head(allGames) \notin seenNames
    THEN UniqueFrom(Tail(allGames), Append(uniqueGames, Head(allGames)),
                    seenNames \cup {Head(allGames)})
    ELSE UniqueFrom(Tail(allGames), uniqueGames, seenNames)

UniqueGames(allGames) == UniqueFrom(allGames, << >>, {})

(* selectGamesForDate(uniqueGames, today), for every answer of the catalog *)
(* and every date                                                          *)
SelectedGames ==
    [allGames \in CatalogPools, date \in Dates |->
        selectGamesForDate(UniqueGames(allGames), date, DefaultCount)]

(* cachedGrid.date === today && cachedGrid.games.length > 0 *)
CacheHit(grid, date) == grid.date = date /\ Len(grid.games) > 0

(* res.json / res.status(500).json of /api/games, as the observer sees it: *)
(* the n-th response, its status, the date the handler took as today, the  *)
(* games sent, and whether the handler had issued a catalog fetch.         *)
NoResponse ==
    [n |-> 0, status |-> 0, date |-> 0, games |-> << >>, fetched |-> FALSE]

Respond(status, date, games, fetched) ==
    /\ lastResp' = [n |-> lastResp.n + 1, status |-> status, date |-> date,
                    games |-> games, fetched |-> fetched]
    /\ firstServed' =
          IF status = 200 /\ firstServed[date] = NoResult
          THEN [firstServed EXCEPT ![date] = games]
          ELSE firstServed
    /\ UNCHANGED gameCount

-----------------------------------------------------------------------------
(* GET /api/search: validation and sanitizing *)

Chars == {"a", " ", "\"", "\\", ";"}

Whitespace == {" "}

Stripped == {"\"", "\\", ";"}        \* /["\\;]/g

RECURSIVE TrimStart(_)
TrimStart(str) ==
    IF str # << >> /\ Head(str) \in Whitespace THEN TrimStart(Tail(str)) ELSE str

RECURSIVE TrimEnd(_)
TrimEnd(str) ==
    IF str # << >> /\ str[Len(str)] \in Whitespace
    THEN TrimEnd(SubSeq(str, 1, Len(str) - 1))
    ELSE str

(* String.prototype.trim *)
Trim(str) == TrimEnd(TrimStart(str))

(* Variant: the character class misses the backslash *)
StripNoBackslash(str) == SelectSeq(str, LAMBDA c : c \notin {"\"", ";"})

(* query.replace(/["\\;]/g, '') *)
Strip(str) == SelectSeq(str, LAMBDA c : c \notin Stripped)

(* sanitizedQuery *)
Sanitize(str) == Trim(Strip(str))

(* req.query.query: absent, or a string *)
NoQuery == [present |-> FALSE, text |-> << >>]

QueryInputs ==
    {NoQuery} \cup
    {[present |-> TRUE, text |-> str] :
        str \in UNION {[1..n -> Chars] : n \in 0..MaxQueryLen}}

(* Variant: only the raw query is measured *)
QueryRejectedRawOnly(query) ==
    \/ ~query.present
    \/ query.text = << >>
    \/ Len(Trim(query.text)) < MinQueryLen

(* The two tests that answer 400 *)
QueryRejected(query) ==
    \/ ~query.present
    \/ query.text = << >>
    \/ Len(Trim(query.text)) < MinQueryLen
    \/ Len(Sanitize(query.text)) < MinQueryLen

(* The x-forwarded-for header (absent, or a string) and req.ip (absent, or *)
(* a string).                                                              *)
Absent == [present |-> FALSE, text |-> << >>]

Given(str) == [present |-> TRUE, text |-> str]

ForwardedHeaders == {Absent, Given(<<"1">>), Given(<<"2", ",", " ", "1">>)}

PeerAddresses == {Absent, Given(<<"2">>)}

RECURSIVE FirstEntry(_)
(* split(',')[0] *)
FirstEntry(str) ==
    IF str = << >> \/ Head(str) = "," THEN << >>
    ELSE <<Head(str)>> \o FirstEntry(Tail(str))

(* Variant: the peer address is preferred to the header *)
ClientIpPeerFirst(header, peer) ==
    IF peer.present THEN peer.text
    ELSE IF header.present THEN Trim(FirstEntry(header.text))
    ELSE UnknownIp

(* header?.split(',')[0].trim() ?? req.ip ?? 'unknown' *)
ClientIp(header, peer) ==
    IF header.present THEN Trim(FirstEntry(header.text))
    ELSE IF peer.present THEN peer.text
    ELSE UnknownIp

NoSearch ==
    [n |-> 0, query |-> NoQuery, ip |-> << >>, status |-> 0]

-----------------------------------------------------------------------------
(* GET /api/games handled from arrival to response, as a function of the   *)
(* server's state and of what the store, the token endpoint and the        *)
(* catalog do during the request.                                          *)

(* The catalog request rejects *)
CatalogDown == <<0>>

(* What happens around one request: the SELECT fails or not, a credential  *)
(* exchange (if one is made) succeeds or not, the catalog's answer, and    *)
(* the INSERT (if one is sent) is executed or rejected.                    *)
TwinInputs ==
    [readFails : BOOLEAN, exchangeOk : BOOLEAN,
     catalog : CatalogPools \cup {CatalogDown}, insertOk : BOOLEAN]

(* Module state after start-up, with or without DATABASE_URL *)
ServerState(db) ==
    [db |-> db, cachedGrid |-> EmptyGrid, rows |-> << >>,
     accessToken |-> "", tokenExpiry |-> 0]

Answer(status, games, fetched) ==
    [status |-> status, games |-> games, fetched |-> fetched]

NoAnswer == Answer(0, << >>, FALSE)

GamesHandler(srv, date, in) ==
    IF CacheHit(srv.cachedGrid, date)
    THEN [srv |-> srv, resp |-> Answer(200, srv.cachedGrid.games, FALSE)]
    ELSE IF srv.db /\ ~in.readFails /\ date \in DOMAIN srv.rows
    THEN [srv |-> [srv EXCEPT !.cachedGrid =
                      [date |-> date, games |-> srv.rows[date]]],
          resp |-> Answer(200, srv.rows[date], FALSE)]
    ELSE IF ~TokenCached(srv.accessToken, srv.tokenExpiry, now) /\ ~in.exchangeOk
    THEN [srv |-> srv, resp |-> Answer(500, << >>, FALSE)]
    ELSE LET tok == IF TokenCached(srv.accessToken, srv.tokenExpiry, now)
                    THEN srv
                    ELSE [srv EXCEPT !.accessToken = "t1",
                                     !.tokenExpiry = ExpiryOf(now, 120)]
         IN  IF in.catalog = CatalogDown
             THEN [srv |-> tok, resp |-> Answer(500, << >>, TRUE)]
             ELSE LET selectedGames == SelectedGames[in.catalog, date]
                      rows == IF srv.db /\ in.insertOk /\ date \notin DOMAIN srv.rows
                              THEN [d \in DOMAIN srv.rows \cup {date} |->
                                      IF d = date THEN selectedGames
                                      ELSE srv.rows[d]]
                              ELSE srv.rows
                  IN  [srv |-> [tok EXCEPT
                                  !.cachedGrid = [date |-> date,
                                                  games |-> selectedGames],
                                  !.rows = rows],
                       resp |-> Answer(200, selectedGames, TRUE)]

-----------------------------------------------------------------------------
(* The game view (GridView): the refs of the component as one record, the  *)
(* functions of the component as functions on that record.                 *)

GridCells == 1 .. GridSize      \* game ids of the nine cells
NoGame == 0                     \* selectedGame null
Outsider == GridSize + 1        \* a search result that is not the selected game
NoGrid == 0                     \* gridId null

GiveUpText == "Give Up & Reveal Answers"
SummaryText == "Summary"

(* The refs as declared *)
FreshView(isDev) ==
    [isDev |-> isDev, gridId |-> NoGrid, isLoading |-> TRUE, isError |-> FALSE,
     showModal |-> FALSE, selectedGame |-> NoGame, searchQuery |-> "",
     searchResults |-> {}, guessResult |-> "",
     flippedCells |-> {}, buttonText |-> GiveUpText, incorrectGuesses |-> 0,
     answersRevealed |-> FALSE, completionModal |-> FALSE,
     completionType |-> ""]

(* localStorage entry gamegrid-progress-<gridId> *)
NoProgress ==
    [present |-> FALSE, flippedCells |-> {}, incorrectGuesses |-> 0,
     answersRevealed |-> FALSE, buttonText |-> "", completionModal |-> FALSE]

saveProgress(v, store) ==
    IF v.gridId = NoGrid THEN store
    ELSE [present |-> TRUE, flippedCells |-> v.flippedCells,
          incorrectGuesses |-> v.incorrectGuesses,
          answersRevealed |-> v.answersRevealed,
          buttonText |-> v.buttonText,
          completionModal |-> v.completionModal]

(* The restore at the end of onMounted *)
restoreProgress(v, store) ==
    IF v.gridId = NoGrid \/ ~store.present THEN v
    ELSE [v EXCEPT !.flippedCells = store.flippedCells,
                   !.incorrectGuesses = store.incorrectGuesses,
                   !.answersRevealed = store.answersRevealed,
                   !.buttonText = IF store.buttonText = "" THEN GiveUpText
                                  ELSE store.buttonText,
                   !.completionModal = store.completionModal \/ @]

Watched(v) ==
    <<v.flippedCells, v.incorrectGuesses, v.answersRevealed, v.buttonText,
      v.completionModal, v.gridId>>

(* The watcher's callback *)
watchCallback(v) ==
    [v EXCEPT !.buttonText =
        IF \/ Cardinality(v.flippedCells) = GridSize
           \/ v.incorrectGuesses >= GuessLimit
           \/ v.answersRevealed
        THEN SummaryText ELSE GiveUpText]

(* The view after an event handler has run from old to new, once the       *)
(* watcher has been flushed: it runs when a watched ref has changed, and   *)
(* again when it has changed buttonText itself.                            *)
Flushed(old, new) ==
    IF Watched(new) = Watched(old) THEN new ELSE watchCallback(new)

(* The localStorage entry after that flush *)
FlushedStore(old, new, store) ==
    IF Watched(new) = Watched(old) THEN store
    ELSE saveProgress(watchCallback(new), store)

(* The games of the cycling behaviours: game g has g - 1 screenshots *)
ShotGames == 1 .. (MaxShots + 1)

(* game.screenshots?.length ?? 0 *)
getScreenshotCount(game) == game - 1

(* The % of JavaScript: the result has the sign of the dividend *)
JsRem(a, b) == IF a >= 0 THEN a % b ELSE 0 - ((0 - a) % b)

(* screenshotIndices.get(game.id!) ?? 0 *)
ShownIndex(indices, game) ==
    IF game \in DOMAIN indices THEN indices[game] ELSE 0

(* Variant: the count is not added before the remainder is taken *)
cycleScreenshotNoWrap(indices, game, direction) ==
    LET count == getScreenshotCount(game)
    IN  IF count <= 1 THEN indices
        ELSE [g \in DOMAIN indices \cup {game} |->
                IF g = game
                THEN JsRem(ShownIndex(indices, game) + direction, count)
                ELSE indices[g]]

(* cycleScreenshot: the Map after the call *)
cycleScreenshot(indices, game, direction) ==
    LET count == getScreenshotCount(game)
    IN  IF count <= 1 THEN indices
        ELSE [g \in DOMAIN indices \cup {game} |->
                IF g = game
                THEN JsRem(ShownIndex(indices, game) + direction + count, count)
                ELSE indices[g]]

(* cycleModalScreenshot: modalScreenshotIndex after the call *)
cycleModalScreenshot(index, game, direction) ==
    LET count == getScreenshotCount(game)
    IN  IF count <= 1 THEN index
        ELSE JsRem(index + direction + count, count)

openModal(v, game) ==
    [v EXCEPT !.selectedGame = game, !.showModal = TRUE, !.searchQuery = "",
              !.searchResults = {}, !.guessResult = ""]

(* Variant: the search state is left as it is *)
closeModalKeepsSearch(v) ==
    [v EXCEPT !.showModal = FALSE, !.selectedGame = NoGame, !.guessResult = ""]

closeModal(v) ==
    [v EXCEPT !.showModal = FALSE, !.selectedGame = NoGame, !.searchQuery = "",
              !.searchResults = {}, !.guessResult = ""]

(* The click handler of a grid cell:                                       *)
(* !flippedCells.has(game.id!) && !answersRevealed && openModal(game)      *)
cellClick(v, game) ==
    IF game \notin v.flippedCells /\ ~v.answersRevealed
    THEN openModal(v, game)
    ELSE v

checkCompletion(v) ==
    IF Cardinality(v.flippedCells) = GridSize
    THEN [v EXCEPT !.completionType = "win", !.completionModal = TRUE]
    ELSE IF v.incorrectGuesses >= GuessLimit
    THEN [v EXCEPT !.completionType = "fail", !.completionModal = TRUE]
    ELSE IF v.answersRevealed
    THEN [v EXCEPT !.completionType = "giveup", !.completionModal = TRUE]
    ELSE v

revealAll(v) ==
    checkCompletion(
        [closeModal([v EXCEPT !.buttonText = SummaryText])
            EXCEPT !.answersRevealed = TRUE])

GuessIsCorrect(v, game) == v.selectedGame # NoGame /\ game = v.selectedGame

(* Variant: the fifth incorrect guess does not reveal *)
makeGuessNoReveal(v, game) ==
    IF GuessIsCorrect(v, game)
    THEN [v EXCEPT !.guessResult = "Correct!", !.flippedCells = @ \cup {game}]
    ELSE [v EXCEPT !.guessResult = "Incorrect!", !.incorrectGuesses = @ + 1]

(* makeGuess up to its return; the timer of a correct guess is apart *)
makeGuess(v, game) ==
    IF GuessIsCorrect(v, game)
    THEN [v EXCEPT !.guessResult = "Correct!", !.flippedCells = @ \cup {game}]
    ELSE LET w == [v EXCEPT !.guessResult = "Incorrect!",
                            !.incorrectGuesses = @ + 1]
         IN  IF w.incorrectGuesses >= GuessLimit
             THEN checkCompletion(revealAll(w))
             ELSE w

resetGrid(v) ==
    closeModal([v EXCEPT !.flippedCells = {}, !.incorrectGuesses = 0,
                         !.answersRevealed = FALSE, !.buttonText = GiveUpText,
                         !.completionModal = FALSE, !.completionType = ""])

InitView ==
    /\ view = FreshView(FALSE)
    /\ closeTimers = 0
    /\ localStorage = NoProgress
    /\ searchTimer = FALSE
    /\ searchFetches = << >>

-----------------------------------------------------------------------------
(* getGridNumber.  A date string YYYY-MM-DD is the record of its three     *)
(* numbers; times are in seconds (every time here is a whole number of     *)
(* seconds, and the milliseconds of the source cancel in the quotient).    *)

LaunchDate == [y |-> 2025, m |-> 1, d |-> 1]    \* new Date('2025-01-01')

DayLength == 60 * 60 * 24                       \* (1000 * 60 * 60 * 24) / 1000

(* new Date(dateStr).getTime() for a date-only string: midnight UTC of     *)
(* that day of the proleptic Gregorian calendar, counted from 1970-01-01   *)
getTime(date) ==
    LET y   == IF date.m <= 2 THEN date.y - 1 ELSE date.y
        era == y \div 400
        yoe == y - era * 400
        mp  == IF date.m > 2 THEN date.m - 3 ELSE date.m + 9
        doy == (153 * mp + 2) \div 5 + date.d - 1
        doe == yoe * 365 + yoe \div 4 - yoe \div 100 + doy
    IN  (era * 146097 + doe - 719468) * DayLength

(* Variant: the day count is returned as it is *)
getGridNumberFromZero(date) ==
    (getTime(date) - getTime(LaunchDate)) \div DayLength

getGridNumber(date) ==
    LET diff == (getTime(date) - getTime(LaunchDate)) \div DayLength
    IN  diff + 1

(* The calendar, day after day *)
IsLeapYear(y) == (y % 4 = 0 /\ y % 100 # 0) \/ y % 400 = 0

DaysInMonth(y, m) ==
    IF m = 2 THEN (IF IsLeapYear(y) THEN 29 ELSE 28)
    ELSE IF m \in {4, 6, 9, 11} THEN 30 ELSE 31

DayAfter(date) ==
    IF date.d < DaysInMonth(date.y, date.m) THEN [date EXCEPT !.d = @ + 1]
    ELSE IF date.m < 12 THEN [date EXCEPT !.m = @ + 1, !.d = 1]
    ELSE [y |-> date.y + 1, m |-> 1, d |-> 1]

InitCal ==
    /\ calDate = LaunchDate
    /\ calDays = 0
    /\ gridNumber = <<>>

-----------------------------------------------------------------------------
(* getTitlePlaceholder.  A character is named by a string: "a" is a letter *)
(* of A-Z, a-z, "U+6771" is a letter outside ASCII, "&" a sign that is     *)
(* neither a letter nor one of the split marks.                            *)

AsciiWordChars == {"a"}                         \* \w
TitleLetters == {"a", "U+6771"}
TitleMarks == {":", "!"}                        \* two of [:.,!?;]
TitleChars == TitleLetters \cup TitleMarks \cup {" ", "&"}

Titles == UNION {[1..n -> TitleChars] : n \in 0..MaxTitleLen}

(* The leading whitespace run of str *)
RECURSIVE SpaceRun(_)
SpaceRun(str) ==
    IF str # << >> /\ Head(str) \in Whitespace
    THEN <<Head(str)>> \o SpaceRun(Tail(str))
    ELSE << >>

(* str.split(/(\s+|[:.,!?;])/): the pieces between the separators and, the *)
(* group being captured, the separators themselves; cur is the piece being *)
(* read, out the tokens so far.                                            *)
RECURSIVE SplitFrom(_, _, _)
SplitFrom(str, cur, out) ==
    IF str = << >> THEN Append(out, cur)
    ELSE IF Head(str) \in Whitespace
    THEN SplitFrom(SubSeq(str, Len(SpaceRun(str)) + 1, Len(str)), << >>,
                   out \o <<cur, SpaceRun(str)>>)
    ELSE IF Head(str) \in TitleMarks
    THEN SplitFrom(Tail(str), << >>, out \o <<cur, <<Head(str)>> >>)
    ELSE SplitFrom(Tail(str), Append(cur, Head(str)), out)

SplitTokens(str) == SplitFrom(str, << >>, << >>)

(* /\w+/.test(token) *)
HasWordChar(token) == \E i \in DOMAIN token : token[i] \in AsciiWordChars

(* token => (/\w+/.test(token) ? '_' : token) *)
MaskToken(token) == IF HasWordChar(token) THEN <<"_">> ELSE token

(* .join('') *)
RECURSIVE Join(_)
Join(tokens) ==
    IF tokens = << >> THEN << >> ELSE Head(tokens) \o Join(Tail(tokens))

(* .replace(/\s+/g, ' ') *)
RECURSIVE CollapseSpaces(_)
CollapseSpaces(str) ==
    IF str = << >> THEN << >>
    ELSE IF Head(str) \in Whitespace
    THEN <<" ">> \o CollapseSpaces(SubSeq(str, Len(SpaceRun(str)) + 1, Len(str)))
    ELSE <<Head(str)>> \o CollapseSpaces(Tail(str))

getTitlePlaceholder(name) ==
    IF name = << >> THEN << >>
    ELSE LET tokens == SplitTokens(Trim(name))
         IN  CollapseSpaces(Join([i \in DOMAIN tokens |-> MaskToken(tokens[i])]))

InitTitleIdle ==
    /\ title = << >>
    /\ placeholder = << >>

(* Catalog answers of up to MaxFetched games with names 1..MaxNames *)
FetchedPools == UNION {[1..n -> 1..MaxNames] : n \in 0..MaxFetched}

InitDedupIdle ==
    /\ igdbData = << >>
    /\ uniquePool = << >>

(* No cycling call made yet *)
NoRun == [calls |-> 0, target |-> "", game |-> 0, direction |-> 0, len |-> 0, start |-> 0]

(* new Map<number, number>() and ref(0) *)
InitShotsIdle ==
    /\ screenshotIndices = << >>
    /\ modalScreenshotIndex = 0
    /\ shotRun = NoRun

(* The map of the run without sweeps and the result of its last call *)
InitUnswept == unswept = [map |-> << >>, limited |-> FALSE]

InitTwin ==
    twin = [day |-> 1, count |-> 0,
            withStore |-> ServerState(TRUE), memOnly |-> ServerState(FALSE),
            respStore |-> NoAnswer, respMem |-> NoAnswer]

InitSelect ==
    /\ selArgs \in [games : SelectorPools, date : Dates]
    /\ selPc = [p \in Procs |-> "idle"]
    /\ selSt = [p \in Procs |-> SelectLocals]
    /\ selCalls = [p \in Procs |-> 0]
    /\ selResult = [p \in Procs |-> NoResult]
    /\ selFirst = NoResult

InitClock ==
    /\ now = 0
    /\ ticks = 0

InitRate ==
    /\ searchRateLimit = << >>
    /\ rlWindow = [ip \in ClientIds |-> NoWindow]
    /\ rlLast = NoCall

InitToken ==
    /\ accessToken = ""
    /\ tokenExpiry = 0
    /\ tokLast = NoTokenCall

InitHandlers ==
    /\ reqs = [slot \in Slots |-> IdleReq]
    /\ lastSearch = NoSearch

InitReqs ==
    /\ InitHandlers
    /\ searchQuery = NoQuery

NoRestart == [n |-> 0, served |-> [d \in Dates |-> NoResult]]

InitGrid ==
    /\ today = 1
    /\ cachedGrid = EmptyGrid
    /\ dbConfigured \in BOOLEAN
    /\ dbRows = << >>
    /\ dbInserts = {}
    /\ restarts = 0
    /\ atRestart = NoRestart
    /\ gameCount = 0
    /\ lastResp = NoResponse
    /\ firstServed = [d \in Dates |-> NoResult]

InitGridIdle ==
    /\ InitGrid
    /\ dbConfigured = FALSE

(* A process invokes selectGamesForDate(games, date): fresh locals *)
SelectCall(p) ==
    /\ selPc[p] \in {"idle", "done"}
    /\ selCalls[p] < MaxInvocations
    /\ selPc' = [selPc EXCEPT ![p] = "loop"]
    /\ selSt' = [selSt EXCEPT ![p] = SelectStart(p)]
    /\ selCalls' = [selCalls EXCEPT ![p] = @ + 1]
    /\ UNCHANGED <<selArgs, selResult, selFirst>>

(* One iteration of the while loop *)
SelectIterate(p) ==
    /\ selPc[p] = "loop"
    /\ SelectLoopCond(selArgs.games, DefaultCount, selSt[p])
    /\ selSt[p].seedOffset < MaxIterations
    /\ selSt' = [selSt EXCEPT ![p] = SelectLoopBody(selArgs.games, selArgs.date, @)]
    /\ UNCHANGED <<selArgs, selPc, selCalls, selResult, selFirst>>

(* The loop condition is false: return selectedGames *)
SelectReturn(p) ==
    /\ selPc[p] = "loop"
    /\ ~SelectLoopCond(selArgs.games, DefaultCount, selSt[p])
    /\ selPc' = [selPc EXCEPT ![p] = "done"]
    /\ selResult' = [selResult EXCEPT ![p] = selSt[p].selectedGames]
    /\ selFirst' = IF selFirst = NoResult THEN selSt[p].selectedGames ELSE selFirst
    /\ UNCHANGED <<selArgs, selSt, selCalls>>

NextSelect ==
    /\ \E p \in Procs : SelectCall(p) \/ SelectIterate(p) \/ SelectReturn(p)
    /\ UNCHANGED <<serverVars, offServer>>

InitSpecSelect ==
    InitSelect /\ InitClock /\ InitRate /\ InitToken /\ InitReqs /\ InitGridIdle
        /\ InitTwin /\ InitView /\ InitCal /\ InitTitleIdle /\ InitDedupIdle /\ InitShotsIdle /\ InitUnswept

SpecSelect == InitSpecSelect /\ [][NextSelect]_vars

SpecSelectFair ==
    /\ SpecSelect
    /\ \A p \in Procs :
          /\ WF_vars(SelectIterate(p) /\ UNCHANGED <<serverVars, offServer>>)
          /\ WF_vars(SelectReturn(p) /\ UNCHANGED <<serverVars, offServer>>)

-----------------------------------------------------------------------------
(* The rate limiter on its own: calls, sweeps and the clock *)

Tick(d) ==
    /\ ticks < MaxTicks
    /\ now' = now + d
    /\ ticks' = ticks + 1

(* isRateLimited(ip) *)
RateCall(ip) ==
    LET r == isRateLimited(searchRateLimit, ip, now)
        w == ObserveCall(rlWindow[ip], now, r.limited)
    IN  /\ w.calls <= MaxWindowCalls
        /\ searchRateLimit' = r.map
        /\ rlWindow' = [rlWindow EXCEPT ![ip] = w]
        /\ rlLast' = [called |-> TRUE, ip |-> ip, limited |-> r.limited]

(* The five-minute sweep *)
Sweep ==
    /\ searchRateLimit' = SweepMap(searchRateLimit, now)
    /\ UNCHANGED <<rlWindow, rlLast>>

RateClients == {Ip1, Ip2}

NextRate ==
    \/ \E d \in TickSteps :
          Tick(d) /\ UNCHANGED <<selVars, offServer, rateVars, tokenVars, reqVars, gridVars, gameObs>>
    \/ \E ip \in RateClients :
          RateCall(ip) /\ UNCHANGED <<selVars, offServer, clockVars, tokenVars, reqVars, gridVars, gameObs>>
    \/ Sweep /\ UNCHANGED <<selVars, offServer, clockVars, tokenVars, reqVars, gridVars, gameObs>>

InitIdleSelect ==
    /\ selArgs = [games |-> << >>, date |-> 1]
    /\ selPc = [p \in Procs |-> "idle"]
    /\ selSt = [p \in Procs |-> SelectLocals]
    /\ selCalls = [p \in Procs |-> 0]
    /\ selResult = [p \in Procs |-> NoResult]
    /\ selFirst = NoResult

InitSpecRate ==
    InitIdleSelect /\ InitClock /\ InitRate /\ InitToken /\ InitReqs /\ InitGridIdle
        /\ InitTwin /\ InitView /\ InitCal /\ InitTitleIdle /\ InitDedupIdle /\ InitShotsIdle /\ InitUnswept

SpecRate == InitSpecRate /\ [][NextRate]_vars

-----------------------------------------------------------------------------
(* GET /api/search *)

(* The handler up to its first await: validation, rate limit, token *)
(* Variant: the limiter is called before the query is validated *)
SearchStartCountsRejected(slot, query, header, peer) ==
    /\ FreeSlot(slot)
    /\ lastSearch.n < MaxSearchRequests
    /\ LET ip == ClientIp(header, peer)
           r  == isRateLimited(searchRateLimit, ip, now)
       IN  /\ searchRateLimit' = r.map
           /\ rlWindow' = [rlWindow EXCEPT
                             ![ip] = ObserveCall(@, now, r.limited)]
           /\ rlLast' = [called |-> TRUE, ip |-> ip, limited |-> r.limited]
           /\ IF QueryRejected(query)
              THEN /\ lastSearch' = [n |-> lastSearch.n + 1, query |-> query,
                                     ip |-> << >>, status |-> 400]
                   /\ UNCHANGED <<tokenVars, reqs, searchQuery>>
              ELSE IF r.limited
              THEN /\ lastSearch' = [n |-> lastSearch.n + 1, query |-> query,
                                     ip |-> ip, status |-> 429]
                   /\ UNCHANGED <<tokenVars, reqs, searchQuery>>
              ELSE /\ lastSearch' = [n |-> lastSearch.n + 1, query |-> query,
                                     ip |-> ip, status |-> 0]
                   /\ AwaitToken(slot, [IdleReq EXCEPT
                                           !.kind = "search",
                                           !.query = Sanitize(query.text)])
                   /\ UNCHANGED searchQuery

SearchStart(slot, query, header, peer) ==
    /\ FreeSlot(slot)
    /\ lastSearch.n < MaxSearchRequests
    /\ IF QueryRejected(query)
       THEN /\ lastSearch' = [n |-> lastSearch.n + 1, query |-> query,
                              ip |-> << >>, status |-> 400]
            /\ UNCHANGED <<rateVars, tokenVars, reqs, searchQuery>>
       ELSE LET ip == ClientIp(header, peer)
                r  == isRateLimited(searchRateLimit, ip, now)
            IN  /\ searchRateLimit' = r.map
                /\ rlWindow' = [rlWindow EXCEPT
                                  ![ip] = ObserveCall(@, now, r.limited)]
                /\ rlLast' = [called |-> TRUE, ip |-> ip, limited |-> r.limited]
                /\ IF r.limited
                   THEN /\ lastSearch' = [n |-> lastSearch.n + 1, query |-> query,
                                          ip |-> ip, status |-> 429]
                        /\ UNCHANGED <<tokenVars, reqs, searchQuery>>
                   ELSE /\ lastSearch' = [n |-> lastSearch.n + 1, query |-> query,
                                          ip |-> ip, status |-> 0]
                        /\ AwaitToken(slot, [IdleReq EXCEPT
                                                !.kind = "search",
                                                !.query = Sanitize(query.text)])
                        /\ UNCHANGED searchQuery

(* Variant: a failed exchange forgets the cached token *)
ExchangeFailClearsToken(slot) ==
    /\ reqs[slot].pc = "exchange"
    /\ reqs' = [reqs EXCEPT ![slot] = IdleReq]
    /\ IF reqs[slot].kind = "games"
       THEN Respond(500, reqs[slot].today, << >>, FALSE)
       ELSE UNCHANGED gameObs
    /\ accessToken' = ""
    /\ tokenExpiry' = 0
    /\ UNCHANGED <<tokLast, lastSearch, searchQuery>>

(* The credential exchange fails: the handler's catch answers 500 *)
ExchangeFail(slot) ==
    /\ reqs[slot].pc = "exchange"
    /\ reqs' = [reqs EXCEPT ![slot] = IdleReq]
    /\ IF reqs[slot].kind = "games"
       THEN Respond(500, reqs[slot].today, << >>, FALSE)
       ELSE UNCHANGED gameObs
    /\ UNCHANGED <<tokenVars, lastSearch, searchQuery>>

(* The upstream search answers (200) or fails (500) *)
SearchDone(slot) ==
    /\ reqs[slot].pc = "search"
    /\ reqs' = [reqs EXCEPT ![slot] = IdleReq]
    /\ UNCHANGED <<tokenVars, lastSearch, searchQuery>>

(* Rate-limit maps the search requests of earlier behaviour left behind *)
LeftoverCounts == {RateCeiling - 1, RateCeiling}

LeftoverMaps ==
    {<< >>} \cup
    {[ip \in {Ip1} |-> [count |-> c, resetTime |-> RateWindowMs]] :
        c \in LeftoverCounts}

InitRateLeftover ==
    /\ searchRateLimit \in LeftoverMaps
    /\ rlWindow = [ip \in ClientIds |->
                     IF ip \in DOMAIN searchRateLimit
                     THEN [start |-> 0, calls |-> searchRateLimit[ip].count,
                           refused |-> FALSE]
                     ELSE NoWindow]
    /\ rlLast = NoCall

NextSearch ==
    \/ \E slot \in Slots, header \in ForwardedHeaders, peer \in PeerAddresses :
          SearchStart(slot, searchQuery, header, peer)
            /\ UNCHANGED <<selVars, offServer, clockVars, gridVars, gameObs>>
    \/ \E slot \in Slots, token \in Tokens, expiresIn \in ExpiresIn :
          ExchangeOk(slot, token, expiresIn)
            /\ UNCHANGED <<selVars, offServer, clockVars, rateVars, lastSearch, searchQuery,
                           gridVars, gameObs>>
    \/ \E slot \in Slots :
          ExchangeFail(slot) /\ UNCHANGED <<selVars, offServer, clockVars, rateVars, gridVars>>
    \/ \E slot \in Slots :
          SearchDone(slot)
            /\ UNCHANGED <<selVars, offServer, clockVars, rateVars, gridVars, gameObs>>

InitSearch ==
    /\ InitHandlers
    /\ searchQuery \in QueryInputs

-----------------------------------------------------------------------------
(* GET /api/search with a valid query, from clients with and without an    *)
(* address; the requests before have left the record of "unknown" near the *)
(* ceiling.                                                                *)

IpHeaders == ForwardedHeaders \cup {Given(<<" ", "1", " ", ",", "2">>)}

UnknownLeftovers ==
    {<< >>} \cup
    {[ip \in {UnknownIp} |-> [count |-> c, resetTime |-> RateWindowMs]] :
        c \in LeftoverCounts}

InitSpecIp ==
    /\ InitIdleSelect /\ InitClock /\ InitToken /\ InitHandlers /\ InitGridIdle
    /\ InitTwin /\ InitView /\ InitCal /\ InitTitleIdle /\ InitDedupIdle /\ InitShotsIdle /\ InitUnswept
    /\ searchQuery = Given(<<"a", "a">>)
    /\ searchRateLimit \in UnknownLeftovers
    /\ rlWindow = [ip \in ClientIds |->
                     IF ip \in DOMAIN searchRateLimit
                     THEN [start |-> 0, calls |-> searchRateLimit[ip].count,
                           refused |-> FALSE]
                     ELSE NoWindow]
    /\ rlLast = NoCall

NextIp ==
    \/ \E slot \in Slots, header \in IpHeaders, peer \in PeerAddresses :
          SearchStart(slot, searchQuery, header, peer)
            /\ UNCHANGED <<selVars, offServer, clockVars, gridVars, gameObs>>
    \/ \E slot \in Slots, token \in Tokens, expiresIn \in ExpiresIn :
          ExchangeOk(slot, token, expiresIn)
            /\ UNCHANGED <<selVars, offServer, clockVars, rateVars, lastSearch, searchQuery,
                           gridVars, gameObs>>
    \/ \E slot \in Slots :
          ExchangeFail(slot) /\ UNCHANGED <<selVars, offServer, clockVars, rateVars, gridVars>>
    \/ \E slot \in Slots :
          SearchDone(slot)
            /\ UNCHANGED <<selVars, offServer, clockVars, rateVars, gridVars, gameObs>>

SpecIp == InitSpecIp /\ [][NextIp]_vars

InitSpecSearch ==
    InitIdleSelect /\ InitClock /\ InitRateLeftover /\ InitToken /\ InitSearch
        /\ InitGridIdle /\ InitTwin /\ InitView /\ InitCal /\ InitTitleIdle /\ InitDedupIdle /\ InitShotsIdle /\ InitUnswept

SpecSearch == InitSpecSearch /\ [][NextSearch]_vars

-----------------------------------------------------------------------------
(* GET /api/games *)

GamesReq(date) == [IdleReq EXCEPT !.kind = "games", !.today = date]

(* The handler up to its first await: the memory slot, then the durable    *)
(* store when there is one, else the token.                                *)
GamesStart(slot) ==
    /\ FreeSlot(slot)
    /\ gameCount < MaxGameRequests
    /\ IF CacheHit(cachedGrid, today)
       THEN /\ Respond(200, cachedGrid.date, cachedGrid.games, FALSE)
            /\ UNCHANGED <<reqs, tokenVars>>
       ELSE IF dbConfigured
       THEN /\ reqs' = [reqs EXCEPT ![slot] = [GamesReq(today) EXCEPT !.pc = "dbread"]]
            /\ UNCHANGED <<tokenVars, lastResp, firstServed>>
       ELSE /\ AwaitToken(slot, GamesReq(today))
            /\ UNCHANGED <<lastResp, firstServed>>
    /\ gameCount' = gameCount + 1
    /\ UNCHANGED <<gridVars, lastSearch, searchQuery>>

(* Variant: the row is returned without filling the memory slot *)
DbReadHitNoFill(slot) ==
    /\ reqs[slot].pc = "dbread"
    /\ reqs[slot].today \in DOMAIN dbRows
    /\ Respond(200, reqs[slot].today, dbRows[reqs[slot].today], FALSE)
    /\ reqs' = [reqs EXCEPT ![slot] = IdleReq]
    /\ UNCHANGED <<gridVars, tokenVars, lastSearch, searchQuery>>

(* The SELECT returns today's row: fill the memory slot and answer *)
DbReadHit(slot) ==
    /\ reqs[slot].pc = "dbread"
    /\ reqs[slot].today \in DOMAIN dbRows
    /\ cachedGrid' = [date |-> reqs[slot].today, games |-> dbRows[reqs[slot].today]]
    /\ Respond(200, reqs[slot].today, dbRows[reqs[slot].today], FALSE)
    /\ reqs' = [reqs EXCEPT ![slot] = IdleReq]
    /\ UNCHANGED <<today, dbConfigured, dbRows, dbInserts, restarts, atRestart,
                   tokenVars, lastSearch, searchQuery>>

(* Variant: a failing SELECT ends the request with a 500 *)
DbReadMissSurfaced(slot, failed) ==
    /\ reqs[slot].pc = "dbread"
    /\ failed \/ reqs[slot].today \notin DOMAIN dbRows
    /\ IF failed
       THEN /\ reqs' = [reqs EXCEPT ![slot] = IdleReq]
            /\ Respond(500, reqs[slot].today, << >>, FALSE)
            /\ UNCHANGED <<gridVars, tokenVars, lastSearch, searchQuery>>
       ELSE /\ AwaitToken(slot, reqs[slot])
            /\ UNCHANGED <<gridVars, gameObs, lastSearch, searchQuery>>

(* Variant: the handler goes on to the token whatever the SELECT returns *)
DbReadMissIgnoresRow(slot, failed) ==
    /\ reqs[slot].pc = "dbread"
    /\ AwaitToken(slot, [reqs[slot] EXCEPT !.dbErr = failed])
    /\ UNCHANGED <<gridVars, gameObs, lastSearch, searchQuery>>

(* The SELECT returns no row, or fails (logged): go on to the token *)
DbReadMiss(slot, failed) ==
    /\ reqs[slot].pc = "dbread"
    /\ failed \/ reqs[slot].today \notin DOMAIN dbRows
    /\ AwaitToken(slot, [reqs[slot] EXCEPT !.dbErr = failed])
    /\ UNCHANGED <<gridVars, gameObs, lastSearch, searchQuery>>

(* Variant: a memory slot that holds a grid is not overwritten *)
FetchOkKeepsSlot(slot, allGames) ==
    /\ reqs[slot].pc = "fetch"
    /\ LET selectedGames == SelectedGames[allGames, reqs[slot].today]
       IN  /\ cachedGrid' =
                 IF Len(cachedGrid.games) > 0 THEN cachedGrid
                 ELSE [date |-> reqs[slot].today, games |-> selectedGames]
           /\ dbInserts' =
                 IF dbConfigured
                 THEN dbInserts \cup {[date |-> reqs[slot].today, games |-> selectedGames]}
                 ELSE dbInserts
           /\ Respond(200, reqs[slot].today, selectedGames, TRUE)
    /\ reqs' = [reqs EXCEPT ![slot] = IdleReq]
    /\ UNCHANGED <<today, dbConfigured, dbRows, restarts, atRestart,
                   tokenVars, lastSearch, searchQuery>>

(* The catalog answers: dedup, select, fill the memory slot, send the      *)
(* INSERT without waiting for it, answer.                                  *)
FetchOk(slot, allGames) ==
    /\ reqs[slot].pc = "fetch"
    /\ LET selectedGames == SelectedGames[allGames, reqs[slot].today]
       IN  /\ cachedGrid' = [date |-> reqs[slot].today, games |-> selectedGames]
           /\ dbInserts' =
                 IF dbConfigured
                 THEN dbInserts \cup {[date |-> reqs[slot].today, games |-> selectedGames]}
                 ELSE dbInserts
           /\ Respond(200, reqs[slot].today, selectedGames, TRUE)
    /\ reqs' = [reqs EXCEPT ![slot] = IdleReq]
    /\ UNCHANGED <<today, dbConfigured, dbRows, restarts, atRestart,
                   tokenVars, lastSearch, searchQuery>>

(* The catalog fetch fails: the catch answers 500 *)
(* Variant: a failed fetch empties the memory slot *)
FetchFailClearsSlot(slot) ==
    /\ reqs[slot].pc = "fetch"
    /\ Respond(500, reqs[slot].today, << >>, TRUE)
    /\ reqs' = [reqs EXCEPT ![slot] = IdleReq]
    /\ cachedGrid' = EmptyGrid
    /\ UNCHANGED <<today, dbConfigured, dbRows, dbInserts, restarts, atRestart,
                   tokenVars, lastSearch, searchQuery>>

FetchFail(slot) ==
    /\ reqs[slot].pc = "fetch"
    /\ Respond(500, reqs[slot].today, << >>, TRUE)
    /\ reqs' = [reqs EXCEPT ![slot] = IdleReq]
    /\ UNCHANGED <<gridVars, tokenVars, lastSearch, searchQuery>>

(* Variant: only the newest row is kept *)
InsertApplyPrunes(ins) ==
    /\ ins \in dbInserts
    /\ dbInserts' = dbInserts \ {ins}
    /\ dbRows' =
          IF ins.date \in DOMAIN dbRows THEN dbRows
          ELSE [d \in {ins.date} |-> ins.games]
    /\ UNCHANGED <<today, cachedGrid, dbConfigured, restarts, atRestart>>

(* Variant: the INSERT replaces the row of its date *)
InsertApplyOverwrite(ins) ==
    /\ ins \in dbInserts
    /\ dbInserts' = dbInserts \ {ins}
    /\ dbRows' = [d \in DOMAIN dbRows \cup {ins.date} |->
                    IF d = ins.date THEN ins.games ELSE dbRows[d]]
    /\ UNCHANGED <<today, cachedGrid, dbConfigured, restarts, atRestart>>

(* INSERT ... ON CONFLICT (date) DO NOTHING is executed by the store *)
InsertApply(ins) ==
    /\ ins \in dbInserts
    /\ dbInserts' = dbInserts \ {ins}
    /\ dbRows' =
          IF ins.date \in DOMAIN dbRows THEN dbRows
          ELSE [d \in DOMAIN dbRows \cup {ins.date} |->
                  IF d = ins.date THEN ins.games ELSE dbRows[d]]
    /\ UNCHANGED <<today, cachedGrid, dbConfigured, restarts, atRestart>>

(* Variant: a failed INSERT empties the memory slot *)
InsertFailClearsSlot(ins) ==
    /\ ins \in dbInserts
    /\ dbInserts' = dbInserts \ {ins}
    /\ cachedGrid' = EmptyGrid
    /\ UNCHANGED <<today, dbConfigured, dbRows, restarts, atRestart>>

(* The INSERT fails: the error is logged *)
InsertFail(ins) ==
    /\ ins \in dbInserts
    /\ dbInserts' = dbInserts \ {ins}
    /\ UNCHANGED <<today, cachedGrid, dbConfigured, dbRows, restarts, atRestart>>

(* The calendar date changes *)
Midnight ==
    /\ today + 1 \in Dates
    /\ today' = today + 1
    /\ UNCHANGED <<cachedGrid, dbConfigured, dbRows, dbInserts, restarts, atRestart>>

(* The process is restarted: module state is initialised again, handlers   *)
(* in flight are gone; the store and what was sent to it stay.             *)
Restart ==
    /\ restarts < MaxRestarts
    /\ restarts' = restarts + 1
    /\ atRestart' = [n |-> lastResp.n, served |-> firstServed]
    /\ cachedGrid' = EmptyGrid
    /\ accessToken' = ""
    /\ tokenExpiry' = 0
    /\ searchRateLimit' = << >>
    /\ reqs' = [slot \in Slots |-> IdleReq]
    /\ UNCHANGED <<today, dbConfigured, dbRows, dbInserts, tokLast,
                   lastSearch, searchQuery, rlWindow, rlLast>>

(* The steps of the /api/games handlers, the store and the token manager *)
GamesSteps ==
    \/ \E slot \in Slots :
          DbReadHit(slot) /\ UNCHANGED <<selVars, offServer, clockVars, rateVars>>
    \/ \E slot \in Slots, failed \in BOOLEAN :
          DbReadMiss(slot, failed) /\ UNCHANGED <<selVars, offServer, clockVars, rateVars>>
    \/ \E slot \in Slots, token \in Tokens, expiresIn \in ExpiresIn :
          ExchangeOk(slot, token, expiresIn)
            /\ UNCHANGED <<selVars, offServer, clockVars, rateVars, lastSearch, searchQuery,
                           gridVars, gameObs>>
    \/ \E slot \in Slots :
          ExchangeFail(slot) /\ UNCHANGED <<selVars, offServer, clockVars, rateVars, gridVars>>
    \/ \E slot \in Slots, allGames \in CatalogPools :
          FetchOk(slot, allGames) /\ UNCHANGED <<selVars, offServer, clockVars, rateVars>>
    \/ \E slot \in Slots :
          FetchFail(slot) /\ UNCHANGED <<selVars, offServer, clockVars, rateVars>>
    \/ \E ins \in dbInserts :
          InsertApply(ins)
            /\ UNCHANGED <<selVars, offServer, clockVars, rateVars, tokenVars, reqVars, gameObs>>
    \/ \E ins \in dbInserts :
          InsertFail(ins)
            /\ UNCHANGED <<selVars, offServer, clockVars, rateVars, tokenVars, reqVars, gameObs>>
    \/ Midnight
            /\ UNCHANGED <<selVars, offServer, clockVars, rateVars, tokenVars, reqVars, gameObs>>

(* Requests arrive at any time; the process may be restarted *)
NextGames ==
    \/ GamesSteps
    \/ \E slot \in Slots :
          GamesStart(slot) /\ UNCHANGED <<selVars, offServer, clockVars, rateVars>>
    \/ Restart /\ UNCHANGED <<selVars, offServer, clockVars, gameObs>>

InitSpecGames ==
    InitIdleSelect /\ InitClock /\ InitRate /\ InitToken /\ InitReqs /\ InitGrid
        /\ InitTwin /\ InitView /\ InitCal /\ InitTitleIdle /\ InitDedupIdle /\ InitShotsIdle /\ InitUnswept

SpecGames == InitSpecGames /\ [][NextGames]_vars

(* Requests handled one after the other: a request arrives only when no    *)
(* handler is in flight; no restart.                                       *)
NextSeq ==
    \/ GamesSteps
    \/ /\ \A slot \in Slots : reqs[slot].pc = "idle"
       /\ GamesStart(1)
       /\ UNCHANGED <<selVars, offServer, clockVars, rateVars>>
    \/ \E d \in TickSteps :
          Tick(d) /\ UNCHANGED <<selVars, offServer, rateVars, tokenVars, reqVars, gridVars, gameObs>>

SpecSeq == InitSpecGames /\ [][NextSeq]_vars

-----------------------------------------------------------------------------
(* Two servers started together, one with a store that starts empty and    *)
(* one without, are given the same requests one after the other, and the   *)
(* store, the token endpoint and the catalog behave the same for both.     *)

TwinRequest(in) ==
    /\ twin.count < MaxTwinRequests
    /\ LET a == GamesHandler(twin.withStore, twin.day, in)
           b == GamesHandler(twin.memOnly, twin.day, in)
       IN  twin' = [twin EXCEPT !.count = @ + 1,
                                !.withStore = a.srv, !.respStore = a.resp,
                                !.memOnly = b.srv, !.respMem = b.resp]

TwinMidnight ==
    /\ twin.day + 1 \in Dates
    /\ twin' = [twin EXCEPT !.day = @ + 1]

NextTwin ==
    \/ \E in \in TwinInputs :
          TwinRequest(in) /\ UNCHANGED <<selVars, serverVars, viewVars, calVars, titleVars, dedupVars, shotVars, sweepVars>>
    \/ TwinMidnight /\ UNCHANGED <<selVars, serverVars, viewVars, calVars, titleVars, dedupVars, shotVars, sweepVars>>

SpecTwin == InitSpecRate /\ [][NextTwin]_vars

-----------------------------------------------------------------------------
(* The game view: the player's clicks, the timers and page loads *)

(* onMounted: the grid is fetched, then the progress is restored *)
Mount(ok) ==
    /\ view.isLoading
    /\ LET loaded == IF ok
                     THEN restoreProgress(
                              [view EXCEPT !.gridId = 1, !.isLoading = FALSE],
                              localStorage)
                     ELSE [view EXCEPT !.isError = TRUE, !.isLoading = FALSE]
       IN  /\ view' = Flushed(view, loaded)
           /\ localStorage' = FlushedStore(view, loaded, localStorage)
    /\ UNCHANGED closeTimers

(* A click on a grid cell *)
ClickCell(game) ==
    /\ ~view.isLoading /\ ~view.isError
    /\ game \notin view.flippedCells /\ ~view.answersRevealed
    /\ view' = openModal(view, game)
    /\ UNCHANGED <<closeTimers, localStorage>>

(* A click on the close button or beside the modal *)
ClickClose ==
    /\ view.showModal
    /\ view' = closeModal(view)
    /\ UNCHANGED <<closeTimers, localStorage>>

(* A click on a search result *)
ClickResult(game) ==
    /\ view.showModal
    /\ view.incorrectGuesses < MaxGuessCount
    /\ GuessIsCorrect(view, game) => closeTimers < MaxCloseTimers
    /\ LET guessed == makeGuess(view, game)
           saved == IF ~GuessIsCorrect(view, game)
                       /\ guessed.incorrectGuesses >= GuessLimit
                    THEN saveProgress(guessed, localStorage)
                    ELSE localStorage
       IN  /\ view' = Flushed(view, guessed)
           /\ localStorage' = FlushedStore(view, guessed, saved)
    /\ closeTimers' = IF GuessIsCorrect(view, game) THEN closeTimers + 1
                      ELSE closeTimers

(* The timer of a correct guess fires *)
CloseTimer ==
    /\ closeTimers > 0
    /\ closeTimers' = closeTimers - 1
    /\ LET closed == checkCompletion(closeModal(view))
       IN  /\ view' = Flushed(view, closed)
           /\ localStorage' = FlushedStore(view, closed,
                                           saveProgress(closed, localStorage))

(* A click on the give-up button *)
ClickReveal ==
    /\ LET revealed == revealAll(view)
       IN  /\ view' = Flushed(view, revealed)
           /\ localStorage' = FlushedStore(view, revealed,
                                           saveProgress(revealed, localStorage))
    /\ UNCHANGED closeTimers

(* A click on the reset button of the development build *)
ClickReset ==
    /\ view.isDev
    /\ LET reset == resetGrid(view)
           removed == IF view.gridId # NoGrid THEN NoProgress ELSE localStorage
       IN  /\ view' = Flushed(view, reset)
           /\ localStorage' = FlushedStore(view, reset, removed)
    /\ UNCHANGED closeTimers

(* The completion modal is closed *)
CloseCompletion ==
    /\ view.completionModal
    /\ LET closed == [view EXCEPT !.completionModal = FALSE]
       IN  /\ view' = Flushed(view, closed)
           /\ localStorage' = FlushedStore(view, closed, localStorage)
    /\ UNCHANGED closeTimers

(* The page is loaded again: the component starts afresh *)
Reload ==
    /\ ~view.isLoading
    /\ view' = FreshView(view.isDev)
    /\ closeTimers' = 0
    /\ UNCHANGED localStorage

NextView ==
    \/ \E ok \in BOOLEAN : Mount(ok) /\ UNCHANGED <<selVars, serverVars, twin, calVars, titleVars, dedupVars, shotVars, sweepVars, searchVars>>
    \/ \E game \in GridCells :
          ClickCell(game) /\ UNCHANGED <<selVars, serverVars, twin, calVars, titleVars, dedupVars, shotVars, sweepVars, searchVars>>
    \/ ClickClose /\ UNCHANGED <<selVars, serverVars, twin, calVars, titleVars, dedupVars, shotVars, sweepVars, searchVars>>
    \/ \E game \in {view.selectedGame, Outsider} :
          ClickResult(game) /\ UNCHANGED <<selVars, serverVars, twin, calVars, titleVars, dedupVars, shotVars, sweepVars, searchVars>>
    \/ CloseTimer /\ UNCHANGED <<selVars, serverVars, twin, calVars, titleVars, dedupVars, shotVars, sweepVars, searchVars>>
    \/ ClickReveal /\ UNCHANGED <<selVars, serverVars, twin, calVars, titleVars, dedupVars, shotVars, sweepVars, searchVars>>
    \/ ClickReset /\ UNCHANGED <<selVars, serverVars, twin, calVars, titleVars, dedupVars, shotVars, sweepVars, searchVars>>
    \/ CloseCompletion /\ UNCHANGED <<selVars, serverVars, twin, calVars, titleVars, dedupVars, shotVars, sweepVars, searchVars>>
    \/ Reload /\ UNCHANGED <<selVars, serverVars, twin, calVars, titleVars, dedupVars, shotVars, sweepVars, searchVars>>

(* The development build: the reset button is there *)
InitDevView ==
    /\ view = FreshView(TRUE)
    /\ closeTimers = 0
    /\ localStorage = NoProgress
    /\ searchTimer = FALSE
    /\ searchFetches = << >>

InitSpecView ==
    InitIdleSelect /\ InitClock /\ InitRate /\ InitToken /\ InitReqs /\ InitGridIdle
        /\ InitTwin /\ InitDevView /\ InitCal /\ InitTitleIdle /\ InitDedupIdle /\ InitShotsIdle /\ InitUnswept

SpecView == InitSpecView /\ [][NextView]_vars

-----------------------------------------------------------------------------
(* The guess modal and its search: a player who clicks the first cells of  *)
(* the grid, types into the search input and picks results.                *)

ModalCells == 1 .. MaxModalCells

SearchTexts == {"", "q"}                \* what the input holds after typing

(* What /api/search may answer with status 200 *)
SearchAnswers == {{1, Outsider}, {2}}

(* A click on a grid cell, guessed or not *)
CellClicked(game) ==
    /\ ~view.isLoading /\ ~view.isError
    /\ view' = cellClick(view, game)
    /\ UNCHANGED <<closeTimers, localStorage, searchVars>>

(* The player types: v-model, then searchGames up to its return *)
TypeQuery(text) ==
    /\ view.showModal
    /\ text # view.searchQuery
    /\ view' = IF text = ""
               THEN [view EXCEPT !.searchQuery = text, !.searchResults = {}]
               ELSE [view EXCEPT !.searchQuery = text]
    /\ searchTimer' = (text # "")
    /\ UNCHANGED <<closeTimers, localStorage, searchFetches>>

(* The debounce timer fires: the request is sent with the query as it is   *)
(* at that moment.                                                         *)
SearchTimerFires ==
    /\ searchTimer
    /\ Len(searchFetches) < MaxSearchFetches
    /\ searchTimer' = FALSE
    /\ searchFetches' = Append(searchFetches, view.searchQuery)
    /\ UNCHANGED <<view, closeTimers, localStorage>>

(* A search request comes back: a 200 with results, or a failure (the 400  *)
(* of an empty query, another status, a network error).                    *)
SearchAnswered(i, ok, results) ==
    /\ i \in DOMAIN searchFetches
    /\ searchFetches' =
          SubSeq(searchFetches, 1, i - 1) \o
          SubSeq(searchFetches, i + 1, Len(searchFetches))
    /\ view' = [view EXCEPT !.searchResults =
                   IF ok /\ searchFetches[i] # "" THEN results ELSE {}]
    /\ UNCHANGED <<closeTimers, localStorage, searchTimer>>

NextModal ==
    \/ Mount(TRUE) /\ UNCHANGED <<selVars, serverVars, twin, calVars, titleVars, dedupVars, shotVars, sweepVars, searchVars>>
    \/ \E game \in ModalCells :
          CellClicked(game) /\ UNCHANGED <<selVars, serverVars, twin, calVars, titleVars, dedupVars, shotVars, sweepVars>>
    \/ ClickClose /\ UNCHANGED <<selVars, serverVars, twin, calVars, titleVars, dedupVars, shotVars, sweepVars, searchVars>>
    \/ \E text \in SearchTexts :
          TypeQuery(text) /\ UNCHANGED <<selVars, serverVars, twin, calVars, titleVars, dedupVars, shotVars, sweepVars>>
    \/ SearchTimerFires /\ UNCHANGED <<selVars, serverVars, twin, calVars, titleVars, dedupVars, shotVars, sweepVars>>
    \/ \E i \in DOMAIN searchFetches, ok \in BOOLEAN, results \in SearchAnswers :
          SearchAnswered(i, ok, results)
            /\ UNCHANGED <<selVars, serverVars, twin, calVars, titleVars, dedupVars, shotVars, sweepVars>>
    \/ \E game \in view.searchResults :
          ClickResult(game)
            /\ UNCHANGED <<selVars, serverVars, twin, calVars, titleVars, dedupVars, shotVars, sweepVars, searchVars>>
    \/ CloseTimer /\ UNCHANGED <<selVars, serverVars, twin, calVars, titleVars, dedupVars, shotVars, sweepVars, searchVars>>
    \/ ClickReveal /\ UNCHANGED <<selVars, serverVars, twin, calVars, titleVars, dedupVars, shotVars, sweepVars, searchVars>>

SpecModal == InitSpecRate /\ [][NextModal]_vars

-----------------------------------------------------------------------------
(* The grid number of each day *)

(* gridNumber = computed(() => getGridNumber(gridId)) *)
ComputeGridNumber ==
    /\ gridNumber = <<>>
    /\ gridNumber' = <<getGridNumber(calDate)>>
    /\ UNCHANGED <<calDate, calDays>>

(* The next day's grid *)
NextDay ==
    /\ calDays < MaxDays
    /\ gridNumber # <<>>
    /\ calDate' = DayAfter(calDate)
    /\ calDays' = calDays + 1
    /\ gridNumber' = <<>>

NextCal ==
    \/ ComputeGridNumber /\ UNCHANGED <<selVars, serverVars, twin, viewVars, titleVars, dedupVars, shotVars, sweepVars>>
    \/ NextDay /\ UNCHANGED <<selVars, serverVars, twin, viewVars, titleVars, dedupVars, shotVars, sweepVars>>

SpecCal == InitSpecRate /\ [][NextCal]_vars

-----------------------------------------------------------------------------
(* The dedup loop of /api/games on its own *)

Dedup ==
    /\ uniquePool = << >>
    /\ uniquePool' = <<UniqueFrom(igdbData, << >>, {})>>
    /\ UNCHANGED igdbData

NextDedup ==
    Dedup /\ UNCHANGED <<selVars, serverVars, twin, viewVars, calVars, titleVars, shotVars, sweepVars>>

InitSpecDedup ==
    /\ InitIdleSelect /\ InitClock /\ InitRate /\ InitToken /\ InitReqs
    /\ InitGridIdle /\ InitTwin /\ InitView /\ InitCal /\ InitTitleIdle /\ InitShotsIdle /\ InitUnswept
    /\ igdbData \in FetchedPools
    /\ uniquePool = << >>

SpecDedup == InitSpecDedup /\ [][NextDedup]_vars

-----------------------------------------------------------------------------
(* The placeholder shown for a game's name *)

ComputePlaceholder ==
    /\ placeholder = << >>
    /\ placeholder' = <<getTitlePlaceholder(title)>>
    /\ UNCHANGED title

NextTitle ==
    ComputePlaceholder
        /\ UNCHANGED <<selVars, serverVars, twin, viewVars, calVars, dedupVars, shotVars, sweepVars>>

InitSpecTitle ==
    /\ InitIdleSelect /\ InitClock /\ InitRate /\ InitToken /\ InitReqs
    /\ InitGridIdle /\ InitTwin /\ InitView /\ InitCal /\ InitDedupIdle /\ InitShotsIdle /\ InitUnswept
    /\ title \in Titles
    /\ placeholder = << >>

SpecTitle == InitSpecTitle /\ [][NextTitle]_vars

-----------------------------------------------------------------------------
(* Properties of the selector *)

C2_NoDuplicateNames ==
    \A p \in Procs :
        /\ selPc[p] # "idle" =>
              Len(selSt[p].selectedGames) = Cardinality(selSt[p].usedIndexes)
        /\ (selPc[p] = "done" /\ DistinctNames(selArgs.games)) =>
              DistinctNames(selResult[p])

C2_Witness ==
    \E p \in Procs :
        /\ selPc[p] = "done"
        /\ DistinctNames(selArgs.games)
        /\ Len(selResult[p]) = DefaultCount
        /\ selSt[p].seedOffset > DefaultCount

\* C3: an invocation on a pool shorter than count (the empty pool included)
\* always comes to return, and returns exactly pool.length entries.
C3_ShortPoolTerminates ==
    \A p \in Procs :
        (selPc[p] = "loop" /\ Len(selArgs.games) < DefaultCount)
            ~> (selPc[p] = "done" /\ Len(selResult[p]) = Len(selArgs.games))

C3_Witness ==
    \E p \in Procs :
        /\ selPc[p] = "done"
        /\ Len(selArgs.games) = 5
        /\ Len(selResult[p]) = 5
        /\ selSt[p].seedOffset > 5

-----------------------------------------------------------------------------
(* Properties of the rate limiter *)

\* C7: counting the calls of one client id from the first call of a window
\* (no record before it): calls 1..30 made no later than 60 s after the first
\* return false, every further call in that window returns true, and the
\* first call made after the 60 s have gone by returns false again.
C7_ThirtyPerWindow ==
    rlLast.called =>
        (rlLast.limited <=> rlWindow[rlLast.ip].calls > RateCeiling)

C7_Witness ==
    /\ rlLast = [called |-> TRUE, ip |-> Ip1, limited |-> FALSE]
    /\ rlWindow[Ip1] =
          [start |-> RateWindowMs + 1, calls |-> 1, refused |-> TRUE]
    /\ rlWindow[Ip2].calls = 0

-----------------------------------------------------------------------------
(* Properties of GET /api/search *)

\* C8: a search request whose query is missing, or shorter than 2 characters
\* once stripped and trimmed, is answered 400 and leaves no handler waiting
\* for a credential exchange or an upstream search (none is issued); any
\* other query is not answered 400 and, when its client is within the 30
\* calls of its window, the handler goes on to the upstream search with the
\* stripped and trimmed text (through the credential exchange when no token
\* is cached).
C8_ShortQueryRejected ==
    [][lastSearch'.n # lastSearch.n =>
        LET q == lastSearch'.query
        IN  IF ~q.present \/ Len(Trim(Strip(q.text))) < 2
            THEN /\ lastSearch'.status = 400
                 /\ reqs' = reqs
                 /\ tokLast' = tokLast
            ELSE /\ lastSearch'.status # 400
                 /\ rlWindow'[lastSearch'.ip].calls <= RateCeiling =>
                      \E slot \in Slots :
                         /\ reqs[slot].pc = "idle"
                         /\ reqs'[slot].kind = "search"
                         /\ reqs'[slot].query = Trim(Strip(q.text))
                         /\ reqs'[slot].pc \in {"search", "exchange"}
      ]_vars

C8_Witness ==
    /\ lastSearch.n = 2
    /\ lastSearch.status = 400
    /\ lastSearch.query.present
    /\ Len(Trim(lastSearch.query.text)) >= 2
    /\ \A slot \in Slots : reqs[slot].pc = "idle"
    /\ tokLast = NoTokenCall

\* C9: the text a handler embeds in an upstream search request holds no
\* double quote, backslash or semicolon and has at least 2 characters; it is
\* the client's query with those characters removed, then trimmed.
C9_EmbeddedQueryClean ==
    \A slot \in Slots :
        reqs[slot].kind = "search" =>
            /\ \A i \in 1..Len(reqs[slot].query) :
                  reqs[slot].query[i] \notin {"\"", "\\", ";"}
            /\ Len(reqs[slot].query) >= 2
            /\ reqs[slot].query =
                  Trim(SelectSeq(searchQuery.text,
                                 LAMBDA c : c \notin {"\"", "\\", ";"}))

C9_Witness ==
    \E slot \in Slots :
        /\ reqs[slot].pc = "search"
        /\ searchQuery.text = <<"a", "\\", "a">>
        /\ reqs[slot].query = <<"a", "a">>

-----------------------------------------------------------------------------
(* Properties of GET /api/games and of the token manager *)

\* C4: when two /api/games requests handled one after the other on the same
\* date are both answered 200, they carry the same games and at most one of
\* the two handlers issued a catalog fetch.
C4_SecondServedFromCache ==
    [][(/\ lastResp.n >= 1
        /\ lastResp'.n = lastResp.n + 1
        /\ lastResp.status = 200 /\ lastResp'.status = 200
        /\ lastResp'.date = lastResp.date)
         => (/\ lastResp'.games = lastResp.games
             /\ ~(lastResp.fetched /\ lastResp'.fetched))
      ]_vars

\* C5: every 200 response of /api/games carries exactly 9 games.
C5_FullGridOrError ==
    lastResp.status = 200 => Len(lastResp.games) = DefaultCount

\* C6: while the process is not restarted, every 200 response of /api/games
\* for a date that carries 9 games carries the same games as the first 200
\* response for that date, when that one carried 9 games too.
C6_GridImmutable ==
    (/\ lastResp.status = 200
     /\ Len(lastResp.games) = DefaultCount
     /\ Len(firstServed[lastResp.date]) = DefaultCount
     /\ restarts = 0)
      => lastResp.games = firstServed[lastResp.date]

\* C10: when a getAccessToken call has exchanged credentials and the next
\* call, made after it returned, starts before the expiry it stored, that
\* next call performs no exchange and returns the same token.
C10_TokenReused ==
    [][(/\ \E slot \in Slots :
              /\ reqs'[slot].pc \in {"fetch", "search"}
              /\ reqs[slot].pc \notin {"fetch", "search"}
        /\ tokLast.exchanged
        /\ tokLast'.start < tokLast.expiry)
         => (/\ ~tokLast'.exchanged
             /\ tokLast'.token = tokLast.token)
      ]_vars

C10_Witness ==
    /\ gameCount = 2
    /\ ~tokLast.exchanged
    /\ tokLast.token \in Tokens
    /\ tokLast.start > 0
    /\ tokLast.start < tokLast.expiry
    /\ accessToken = tokLast.token

\* C11: the handler that has computed a grid answers 200 with it and leaves
\* it in the memory slot in the step that sends the INSERT, and a step in
\* which a sent INSERT fails (it leaves the set of sent INSERTs while no row
\* exists for its date and none is written) changes neither the responses
\* nor the memory slot nor any handler.
C11_InsertFailureOnlyLogged ==
    [][/\ (dbInserts' # dbInserts /\ dbInserts \subseteq dbInserts')
            => \E ins \in dbInserts' \ dbInserts :
                  /\ lastResp'.n = lastResp.n + 1
                  /\ lastResp'.status = 200
                  /\ lastResp'.games = ins.games
                  /\ cachedGrid' = [date |-> ins.date, games |-> ins.games]
       /\ (\E ins \in dbInserts :
              /\ dbInserts' = dbInserts \ {ins}
              /\ ins.date \notin DOMAIN dbRows
              /\ dbRows' = dbRows)
            => (/\ lastResp' = lastResp
                /\ firstServed' = firstServed
                /\ cachedGrid' = cachedGrid
                /\ reqs' = reqs)
      ]_vars

C11_Witness ==
    /\ dbConfigured
    /\ dbInserts = {}
    /\ dbRows = << >>
    /\ restarts = 0
    /\ lastResp.status = 200
    /\ lastResp.fetched
    /\ Len(lastResp.games) = DefaultCount
    /\ cachedGrid = [date |-> lastResp.date, games |-> lastResp.games]

\* C12: a row of daily_grid, once written, is never changed or removed; the
\* INSERT executed first for a date writes exactly its games; an INSERT
\* leaving the set of sent INSERTs when a row for its date exists changes
\* neither the rows nor any response, handler or the memory slot.
C12_FirstWriterWins ==
    [][/\ \A d \in DOMAIN dbRows :
            d \in DOMAIN dbRows' /\ dbRows'[d] = dbRows[d]
       /\ \A ins \in dbInserts :
            (dbInserts' = dbInserts \ {ins} /\ dbRows' # dbRows)
               => (/\ ins.date \notin DOMAIN dbRows
                   /\ DOMAIN dbRows' = DOMAIN dbRows \cup {ins.date}
                   /\ dbRows'[ins.date] = ins.games)
       /\ \A ins \in dbInserts :
            (dbInserts' = dbInserts \ {ins} /\ ins.date \in DOMAIN dbRows)
               => (/\ dbRows' = dbRows
                   /\ lastResp' = lastResp
                   /\ reqs' = reqs
                   /\ cachedGrid' = cachedGrid)
      ]_vars

C12_Witness ==
    /\ dbConfigured
    /\ restarts = 0
    /\ gameCount = 2
    /\ dbInserts = {}
    /\ lastResp.n = 2
    /\ lastResp.status = 200
    /\ lastResp.fetched
    /\ Len(lastResp.games) = DefaultCount
    /\ lastResp.date \in DOMAIN dbRows
    /\ dbRows[lastResp.date] = firstServed[lastResp.date]
    /\ dbRows[lastResp.date] # lastResp.games
    /\ Len(dbRows[lastResp.date]) = DefaultCount

C14_SameWithoutStore ==
    twin.respMem = twin.respStore

\* C15 (as first stated): with a store configured, every 200 response sent
\* after a restart for a date for which a 200 response with 9 games had
\* been sent before the restart carries the games of the first of those
\* and is sent without a catalog fetch.
C15_SameGridAfterRestart ==
    (/\ dbConfigured
     /\ restarts = 1
     /\ lastResp.n > atRestart.n
     /\ lastResp.status = 200
     /\ Len(atRestart.served[lastResp.date]) = DefaultCount)
      => (/\ lastResp.games = atRestart.served[lastResp.date]
          /\ ~lastResp.fetched)

\* C15 (amended): a restart empties the memory slot and the token and
\* leaves the rows of the store as they are; after a restart, a handler
\* whose store read for its date does not fail while a row for that date
\* exists answers 200 with the row's games, without a token exchange or a
\* catalog fetch.
C15_RowServedAfterRestart ==
    [][/\ restarts' # restarts
            => (/\ dbRows' = dbRows
                /\ cachedGrid' = EmptyGrid
                /\ accessToken' = "")
       /\ \A slot \in Slots :
            (/\ restarts >= 1
             /\ restarts' = restarts
             /\ reqs[slot].pc = "dbread"
             /\ reqs'[slot] # reqs[slot]
             /\ reqs[slot].today \in DOMAIN dbRows
             /\ ~reqs'[slot].dbErr)
               => (/\ reqs'[slot].pc = "idle"
                   /\ lastResp'.n = lastResp.n + 1
                   /\ lastResp'.status = 200
                   /\ lastResp'.games = dbRows[reqs[slot].today]
                   /\ ~lastResp'.fetched
                   /\ accessToken' = accessToken
                   /\ tokLast' = tokLast)
      ]_vars

C15_Witness ==
    /\ dbConfigured
    /\ restarts = 1
    /\ lastResp.n = atRestart.n + 1
    /\ lastResp.status = 200
    /\ ~lastResp.fetched
    /\ Len(lastResp.games) = DefaultCount
    /\ lastResp.games = atRestart.served[lastResp.date]
    /\ lastResp.date \in DOMAIN dbRows
    /\ lastResp.games = dbRows[lastResp.date]
    /\ accessToken = ""

-----------------------------------------------------------------------------
(* Properties of GET /api/search under the rate limit *)

\* C16: a /api/search request whose query has at least 2 characters after
\* stripping and trimming, from a client id whose record holds a count of
\* 30 or more and a resetTime not yet passed, is answered 429, and no
\* handler, token or record changes.
C16_LimitedGets429 ==
    [][(/\ lastSearch'.n # lastSearch.n
        /\ lastSearch'.query.present
        /\ Len(Trim(Strip(lastSearch'.query.text))) >= MinQueryLen
        /\ lastSearch'.ip \in DOMAIN searchRateLimit
        /\ searchRateLimit[lastSearch'.ip].count >= RateCeiling
        /\ now <= searchRateLimit[lastSearch'.ip].resetTime)
         => (/\ lastSearch'.status = 429
             /\ reqs' = reqs
             /\ accessToken' = accessToken
             /\ tokenExpiry' = tokenExpiry
             /\ tokLast' = tokLast
             /\ searchRateLimit' = searchRateLimit)
      ]_vars

C16_Witness ==
    /\ lastSearch.status = 429
    /\ lastSearch.ip = Ip1
    /\ lastSearch.n = 2
    /\ searchRateLimit[Ip1].count = RateCeiling
    /\ rlWindow[Ip1].calls = RateCeiling + 1
    /\ tokLast = NoTokenCall

-----------------------------------------------------------------------------
(* Properties of failures *)

\* C17: a handler waiting for the credential exchange either goes on to its
\* upstream call or ends; when it ends (the exchange failed), the token and
\* the expiry are as before, no getAccessToken call has returned, and a
\* /api/games handler has answered 500 without a catalog fetch and without
\* touching the memory slot.
C17_ExchangeFailurePropagates ==
    [][\A slot \in Slots :
         (/\ reqs[slot].pc = "exchange"
          /\ reqs'[slot] # reqs[slot]
          /\ restarts' = restarts)
           => \/ /\ reqs'[slot].pc = UpstreamPc(reqs[slot].kind)
                 /\ tokLast'.exchanged
              \/ /\ reqs'[slot].pc = "idle"
                 /\ accessToken' = accessToken
                 /\ tokenExpiry' = tokenExpiry
                 /\ tokLast' = tokLast
                 /\ reqs[slot].kind = "games" =>
                       /\ lastResp'.n = lastResp.n + 1
                       /\ lastResp'.status = 500
                       /\ ~lastResp'.fetched
                       /\ cachedGrid' = cachedGrid
      ]_vars

C17_Witness ==
    /\ lastResp.n = 2
    /\ lastResp.status = 500
    /\ ~lastResp.fetched
    /\ accessToken \in Tokens
    /\ now >= tokenExpiry
    /\ tokLast.exchanged
    /\ \A slot \in Slots : reqs[slot].pc = "idle"

\* C18: every 500 of /api/games is sent by a handler that was waiting for
\* the credential exchange or for the catalog; a handler whose store read
\* fails goes on to the token and the catalog for the same date without a
\* response and without touching the memory slot or the rows; when it ends
\* with a 200, the games are those it computed from its catalog fetch; a
\* sent INSERT leaving (executed, dropped or rejected) changes no response.
C18_StoreErrorsNotSurfaced ==
    [][/\ (lastResp'.n # lastResp.n /\ lastResp'.status = 500)
            => \E slot \in Slots :
                  /\ reqs[slot].pc \in {"exchange", "fetch"}
                  /\ reqs'[slot].pc = "idle"
       /\ \A slot \in Slots :
            (reqs[slot].pc = "dbread" /\ reqs'[slot].dbErr)
               => (/\ reqs'[slot].pc =
                         IF accessToken # "" /\ now < tokenExpiry
                         THEN "fetch" ELSE "exchange"
                   /\ reqs'[slot].kind = "games"
                   /\ reqs'[slot].today = reqs[slot].today
                   /\ lastResp' = lastResp
                   /\ cachedGrid' = cachedGrid
                   /\ dbRows' = dbRows)
       /\ \A slot \in Slots :
            (/\ reqs[slot].dbErr
             /\ reqs'[slot].pc = "idle"
             /\ restarts' = restarts
             /\ lastResp'.status = 200)
               => (/\ lastResp'.n = lastResp.n + 1
                   /\ lastResp'.fetched
                   /\ lastResp'.date = reqs[slot].today
                   /\ cachedGrid' = [date |-> lastResp'.date,
                                     games |-> lastResp'.games])
       /\ (dbInserts' # dbInserts /\ dbInserts' \subseteq dbInserts)
            => lastResp' = lastResp
      ]_vars

C18_Witness ==
    \E slot \in Slots :
       /\ reqs[slot].pc = "fetch"
       /\ reqs[slot].dbErr
       /\ reqs[slot].today \in DOMAIN dbRows
       /\ lastResp.status # 500

-----------------------------------------------------------------------------
(* Properties of the game view *)

\* C19: incorrectGuesses never exceeds 5, and whenever it is 5 the answers
\* are revealed and the guess modal is closed with no game selected.
C19_GuessLimit ==
    /\ view.incorrectGuesses <= GuessLimit
    /\ view.incorrectGuesses >= GuessLimit
          => (/\ view.answersRevealed
              /\ ~view.showModal
              /\ view.selectedGame = NoGame)

C19_Witness ==
    /\ view.incorrectGuesses = GuessLimit
    /\ view.answersRevealed
    /\ ~view.showModal
    /\ view.completionType = "fail"
    /\ view.flippedCells # {}
    /\ localStorage.present
    /\ localStorage.incorrectGuesses = GuessLimit

-----------------------------------------------------------------------------
(* Properties of the title placeholder *)

\* C21: the placeholder of a title has one underscore for each word of the
\* title and shows none of its letters; the marks of the title are kept in
\* their order; no two spaces are adjacent; the empty title gives the empty
\* placeholder.  A word is a run of characters between spaces and marks
\* that holds a letter.
C21_EachWordOneUnderscore ==
    placeholder # << >> =>
        LET shown == placeholder[1]
            IsSep(c) == c \in Whitespace \cup TitleMarks
            WordStarts ==
                {i \in DOMAIN title :
                    /\ ~IsSep(title[i])
                    /\ i = 1 \/ IsSep(title[i - 1])
                    /\ \E k \in i..Len(title) :
                          /\ title[k] \in TitleLetters
                          /\ \A j \in i..k : ~IsSep(title[j])}
        IN  /\ Cardinality({i \in DOMAIN shown : shown[i] = "_"})
                  = Cardinality(WordStarts)
            /\ \A i \in DOMAIN shown : shown[i] \notin TitleLetters
            /\ SelectSeq(shown, LAMBDA c : c \in TitleMarks)
                  = SelectSeq(title, LAMBDA c : c \in TitleMarks)
            /\ \A i \in 1..(Len(shown) - 1) :
                  ~(shown[i] \in Whitespace /\ shown[i + 1] \in Whitespace)
            /\ title = << >> => shown = << >>

-----------------------------------------------------------------------------
(* Properties of the guess modal *)

\* C22: a click on a cell that is neither guessed nor revealed leaves the
\* modal open with that cell's game selected; a click on a guessed cell, or
\* on any cell once the answers are revealed, leaves the modal and the
\* selected game as they were; a click on the close button leaves the modal
\* closed with no selected game, an empty search query, no search results
\* and no guess result.
C22_ModalOpensAndCloses ==
    [][/\ \A game \in ModalCells :
            CellClicked(game) =>
                IF game \notin view.flippedCells /\ ~view.answersRevealed
                THEN view'.showModal /\ view'.selectedGame = game
                ELSE /\ view'.showModal = view.showModal
                     /\ view'.selectedGame = view.selectedGame
       /\ ClickClose =>
            /\ ~view'.showModal
            /\ view'.selectedGame = NoGame
            /\ view'.searchQuery = ""
            /\ view'.searchResults = {}
            /\ view'.guessResult = ""
      ]_vars

C22_Witness ==
    /\ view.showModal
    /\ view.selectedGame = 2
    /\ view.flippedCells = {1}
    /\ view.searchQuery = "q"
    /\ view.searchResults = {2}
    /\ view.guessResult = "Incorrect!"
    /\ ~view.answersRevealed

-----------------------------------------------------------------------------
(* Properties of the rate-limit records *)

\* C23: the count of every rate-limit record is at least 1 and at most 30
\* in every state, and a call that finds the count of its client id at 30
\* with the window still open returns limited and leaves the record (count
\* and reset instant) as it was.
C23_CountWithinCeiling ==
    /\ [](\A ip \in DOMAIN searchRateLimit :
             /\ searchRateLimit[ip].count >= 1
             /\ searchRateLimit[ip].count <= 30)
    /\ [][\A ip \in DOMAIN searchRateLimit :
             (/\ rlWindow'[ip] # rlWindow[ip]
              /\ searchRateLimit[ip].count = 30
              /\ now <= searchRateLimit[ip].resetTime)
                => /\ rlLast' = [called |-> TRUE, ip |-> ip, limited |-> TRUE]
                   /\ ip \in DOMAIN searchRateLimit'
                   /\ searchRateLimit'[ip] = searchRateLimit[ip]
         ]_vars

C23_Witness ==
    /\ Ip1 \in DOMAIN searchRateLimit
    /\ searchRateLimit[Ip1] = [count |-> 30, resetTime |-> RateWindowMs]
    /\ now = RateWindowMs
    /\ rlLast = [called |-> TRUE, ip |-> Ip1, limited |-> TRUE]
    /\ rlWindow[Ip1] = [start |-> 0, calls |-> 32, refused |-> TRUE]

\* C24: a step gives a client id a reset instant it did not have only by a
\* call made with no record or after the record's reset instant; the record
\* is then count 1 with reset instant now + 60 s and the call is not
\* limited.  A call made no later than the reset instant leaves it as it
\* is, and a call made after it is admitted whatever was refused before.
C24_FixedWindow ==
    [][\A ip \in ClientIds :
          LET had     == ip \in DOMAIN searchRateLimit
              has     == ip \in DOMAIN searchRateLimit'
              called  == rlWindow'[ip] # rlWindow[ip]
              expired == had /\ now > searchRateLimit[ip].resetTime
          IN  /\ (has /\ (~had \/ searchRateLimit'[ip].resetTime
                                    # searchRateLimit[ip].resetTime))
                    => /\ called
                       /\ ~had \/ expired
                       /\ searchRateLimit'[ip] =
                             [count |-> 1, resetTime |-> now + 60000]
                       /\ ~rlLast'.limited
              /\ (called /\ had /\ ~expired)
                    => /\ has
                       /\ searchRateLimit'[ip].resetTime
                             = searchRateLimit[ip].resetTime
              /\ (called /\ (~had \/ expired))
                    => /\ rlLast' = [called |-> TRUE, ip |-> ip, limited |-> FALSE]
                       /\ has
                       /\ searchRateLimit'[ip].resetTime = now + 60000
      ]_vars

C24_Witness ==
    /\ Ip1 \in DOMAIN searchRateLimit
    /\ searchRateLimit[Ip1] = [count |-> 1, resetTime |-> 2 * RateWindowMs + 1]
    /\ rlWindow[Ip1].refused
    /\ rlWindow[Ip1].calls = 1
    /\ rlLast = [called |-> TRUE, ip |-> Ip1, limited |-> FALSE]

\* C25: a run of the sweep removes every record whose reset instant lies
\* before the current time and keeps, unchanged, every record whose reset
\* instant does not; the map it leaves holds no record whose reset instant
\* lies before the current time.
C25_SweepRemovesExpiredOnly ==
    [][(Sweep /\ now' = now) =>
          /\ \A ip \in DOMAIN searchRateLimit :
                IF searchRateLimit[ip].resetTime < now
                THEN ip \notin DOMAIN searchRateLimit'
                ELSE /\ ip \in DOMAIN searchRateLimit'
                     /\ searchRateLimit'[ip] = searchRateLimit[ip]
          /\ \A ip \in DOMAIN searchRateLimit' :
                /\ ip \in DOMAIN searchRateLimit
                /\ searchRateLimit'[ip].resetTime >= now
      ]_vars

C25_Witness ==
    /\ DOMAIN searchRateLimit = {Ip2}
    /\ searchRateLimit[Ip2].resetTime = 2 * RateWindowMs
    /\ rlWindow[Ip1] = [start |-> 0, calls |-> 1, refused |-> FALSE]
    /\ now = RateWindowMs + 1

-----------------------------------------------------------------------------
(* Properties of the access token manager *)

\* C26: an exchange that answers with a time-to-live of ttl seconds stores
\* the expiry (time of the answer) + (ttl - 60) * 1000 ms; a getAccessToken
\* call returns the stored token without an exchange exactly when a token
\* is stored and the time of the call is before the stored expiry, so a
\* token whose ttl is 60 or less is never returned from the cache.
C26_ExpiryMargin ==
    [][\A slot \in Slots :
          LET called    == reqs[slot].pc \in {"idle", "dbread"}
              cached    == called /\ reqs'[slot].pc \in {"fetch", "search"}
              exchanges == called /\ reqs'[slot].pc = "exchange"
              answered  == reqs[slot].pc = "exchange"
                             /\ reqs'[slot].pc \in {"fetch", "search"}
          IN  /\ answered =>
                    /\ tokLast'.exchanged
                    /\ accessToken' = tokLast'.token
                    /\ tokenExpiry' = now + (tokLast'.ttl - 60) * 1000
              /\ cached =>
                    /\ accessToken # "" /\ now < tokenExpiry
                    /\ tokLast' = [start |-> now, exchanged |-> FALSE,
                                   token |-> accessToken, expiry |-> tokenExpiry,
                                   ttl |-> tokLast.ttl]
                    /\ <<accessToken, tokenExpiry>>' = <<accessToken, tokenExpiry>>
                    /\ tokLast.ttl > 60
              /\ exchanges => ~(accessToken # "" /\ now < tokenExpiry)
      ]_vars

C26_Witness ==
    /\ accessToken \in Tokens
    /\ tokLast.exchanged /\ tokLast.ttl = 60
    /\ tokenExpiry = now
    /\ gameCount = 2
    /\ reqs[1].pc = "exchange"
    /\ lastResp.n = 1

\* C27: a getAccessToken call that finds no token, or an expired one, starts
\* an exchange of its own also while another caller's exchange is under
\* way; each exchange that answers lets its caller go on with the token it
\* received, and stores that token together with the expiry computed from
\* the same answer, whatever an exchange answered before had stored.
C27_RefreshNotSerialized ==
    [][\A slot \in Slots :
          LET called   == /\ reqs[slot].pc \in {"idle", "dbread"}
                          /\ reqs'[slot].pc \in {"exchange", "fetch", "search"}
              answered == /\ reqs[slot].pc = "exchange"
                          /\ reqs'[slot].pc # "exchange"
                          /\ lastResp' = lastResp
                          /\ restarts' = restarts
          IN  /\ (called /\ (accessToken = "" \/ now >= tokenExpiry))
                    => reqs'[slot].pc = "exchange"
              /\ answered =>
                    /\ reqs'[slot].pc \in {"fetch", "search"}
                    /\ tokLast'.exchanged
                    /\ tokLast'.token \in Tokens
                    /\ accessToken' = tokLast'.token
                    /\ tokenExpiry' = tokLast'.expiry
                    /\ tokLast'.expiry = now + (tokLast'.ttl - 60) * 1000
                    /\ \A other \in Slots \ {slot} : reqs'[other] = reqs[other]
      ]_vars

C27_Witness ==
    /\ reqs[1].pc = "exchange" /\ reqs[2].pc = "fetch"
    /\ tokLast.exchanged /\ tokLast.ttl = 120
    /\ accessToken = "t1" /\ now < tokenExpiry
    /\ restarts = 0
    /\ gameCount = 2

-----------------------------------------------------------------------------
(* Properties of the memory slot and the store *)

\* C28: the memory slot holds one date and one list of games; in the step
\* in which a handler answers 200 with a grid it computed for its date, or
\* read from the store for its date, the slot becomes exactly that date
\* with that grid, whatever date it held before.
C28_SlotOverwritten ==
    /\ [](cachedGrid = EmptyGrid \/ cachedGrid.date \in Dates)
    /\ [][(/\ lastResp'.n # lastResp.n
           /\ lastResp'.status = 200
           /\ \E slot \in Slots : /\ reqs[slot].pc \in {"fetch", "dbread"}
                                  /\ reqs'[slot].pc = "idle"
                                  /\ reqs[slot].today = lastResp'.date)
             => cachedGrid' = [date |-> lastResp'.date, games |-> lastResp'.games]
         ]_vars

C28_Witness ==
    /\ cachedGrid.date = 2
    /\ Len(cachedGrid.games) = DefaultCount
    /\ lastResp.date = 2 /\ lastResp.status = 200 /\ lastResp.games = cachedGrid.games
    /\ Len(firstServed[1]) = DefaultCount
    /\ firstServed[1] # cachedGrid.games
    /\ restarts = 0

\* C29: no step removes a row of the store or changes its games: every row
\* present before a step is present after it with the same games, also
\* when rows of later dates are written and when the process restarts.
C29_StoreOnlyGrows ==
    [][\A d \in DOMAIN dbRows :
          /\ d \in DOMAIN dbRows'
          /\ dbRows'[d] = dbRows[d]
      ]_vars

C29_Witness ==
    /\ DOMAIN dbRows = {1, 2}
    /\ Len(dbRows[1]) = DefaultCount
    /\ dbRows[1] = firstServed[1]
    /\ Len(dbRows[2]) = DefaultCount
    /\ dbRows[2] # dbRows[1]
    /\ cachedGrid.date = 2
    /\ restarts = 1

-----------------------------------------------------------------------------
(* Properties of the dedup loop *)

\* C30: the deduplicated pool is the list of the games of the catalog answer
\* that stand at the first occurrence of their name, in the order of the
\* answer; every name of the answer is in it exactly once.
C30_DedupKeepsFirst ==
    uniquePool # << >> =>
        LET kept  == uniquePool[1]
            First == {i \in DOMAIN igdbData :
                        \A j \in 1..(i - 1) : igdbData[j] # igdbData[i]}
        IN  /\ Len(kept) = Cardinality(First)
            /\ \A i \in First :
                  kept[Cardinality({j \in First : j <= i})] = igdbData[i]
            /\ \A i \in DOMAIN igdbData :
                  Cardinality({k \in DOMAIN kept : kept[k] = igdbData[i]}) = 1

C30_Witness ==
    /\ igdbData = <<2, 1, 2, 3, 1>>
    /\ uniquePool = << <<2, 1, 3>> >>

-----------------------------------------------------------------------------
(* Properties of the selector's walk *)

\* C31: with idx(k) the index derived from seed + k, every iteration moves
\* from offset k to k + 1, and a returned selection is the list of the games
\* at the first min(count, pool length) distinct values of idx(0), idx(1),
\* ..., in the order in which they first appear; the offset reached is one
\* past the offset at which the last of them appeared.
C31_FirstDistinctIndices ==
    /\ [](\A p \in Procs :
            selPc[p] = "done" =>
                LET games == selArgs.games
                    n     == IF Len(games) < 9 THEN Len(games) ELSE 9
                    idx(k) == (SinTable[selArgs.date][k + 1] * Len(games))
                                  \div 1000000
                    First == {k \in 0..(MaxIterations - 1) :
                                 \A j \in 0..(k - 1) : idx(j) # idx(k)}
                    Rank(k) == Cardinality({j \in First : j <= k})
                IN  /\ Len(selResult[p]) = n
                    /\ \A k \in First :
                          Rank(k) <= n => selResult[p][Rank(k)] = games[idx(k) + 1]
                    /\ n = 0 => selSt[p].seedOffset = 0
                    /\ n > 0 => \E k \in First :
                                   Rank(k) = n /\ selSt[p].seedOffset = k + 1)
    /\ [][\A p \in Procs :
             (selPc[p] = "loop" /\ selSt'[p] # selSt[p] /\ selPc'[p] = "loop")
                => selSt'[p].seedOffset = selSt[p].seedOffset + 1
         ]_vars

C31_Witness ==
    /\ selArgs = [games |-> PoolOf(10, 10), date |-> 1]
    /\ selPc[1] = "done"
    /\ selResult[1] = <<4, 5, 1, 9, 8, 6, 2, 7, 3>>
    /\ selSt[1].seedOffset > 9

-----------------------------------------------------------------------------
(* Properties of the client id *)

\* C32: the client id a valid search request is counted under is the first
\* comma-separated entry of the forwarded-address header (without the
\* whitespace around it) when the header is there, else the peer address
\* when there is one, else "unknown"; the requests with neither are all
\* counted in the one record of "unknown" and are refused exactly when they
\* are beyond the 30th of its window.
C32_ClientIdFallback ==
    [][\A slot \in Slots, header \in IpHeaders, peer \in PeerAddresses :
          SearchStart(slot, searchQuery, header, peer) =>
              LET text  == header.text
                  comma == {i \in DOMAIN text : text[i] = ","}
                  stop  == IF comma = {} THEN Len(text) + 1
                           ELSE CHOOSE i \in comma : \A j \in comma : i <= j
                  id    == IF header.present
                           THEN Trim(SubSeq(text, 1, stop - 1))
                           ELSE IF peer.present THEN peer.text
                           ELSE <<"u", "n", "k", "n", "o", "w", "n">>
              IN  /\ lastSearch'.ip = id
                  /\ rlLast'.ip = id
                  /\ DOMAIN searchRateLimit' = DOMAIN searchRateLimit \cup {id}
                  /\ \A other \in DOMAIN searchRateLimit \ {id} :
                        searchRateLimit'[other] = searchRateLimit[other]
                  /\ rlWindow'[id].calls = rlWindow[id].calls + 1
                  /\ (lastSearch'.status = 429) <=> (rlWindow'[id].calls > 30)
      ]_vars

C32_Witness ==
    /\ lastSearch.n = 2
    /\ lastSearch.ip = UnknownIp
    /\ lastSearch.status = 429
    /\ DOMAIN searchRateLimit = {UnknownIp}
    /\ searchRateLimit[UnknownIp].count = 30
    /\ rlWindow[UnknownIp].calls = 31
    /\ \E slot \in Slots : reqs[slot].pc # "idle"

-----------------------------------------------------------------------------
(* Cycling through the screenshots of a game, in its cell and in the modal *)

Directions == {1, 0 - 1}

(* The observer after a call: a run is the calls in a row on one target,   *)
(* one game and in one direction; before is the index the call found       *)
RunAfter(target, game, direction, before) ==
    IF /\ shotRun.target = target
       /\ shotRun.game = game
       /\ shotRun.direction = direction
    THEN [shotRun EXCEPT !.calls = @ + 1, !.len = @ + 1]
    ELSE [calls |-> shotRun.calls + 1, target |-> target, game |-> game,
          direction |-> direction, len |-> 1, start |-> before]

(* A call of cycleScreenshot; the template shows its buttons for the games *)
(* with more than one screenshot, the function takes any game              *)
CycleCell(game, direction) ==
    /\ shotRun.calls < MaxShotCalls
    /\ screenshotIndices' = cycleScreenshot(screenshotIndices, game, direction)
    /\ shotRun' = RunAfter("cell", game, direction,
                           ShownIndex(screenshotIndices, game))
    /\ UNCHANGED <<modalScreenshotIndex, viewVars>>

(* A call of cycleModalScreenshot, from the buttons of the open modal *)
CycleModal(direction) ==
    /\ shotRun.calls < MaxShotCalls
    /\ view.showModal
    /\ view.selectedGame # NoGame
    /\ modalScreenshotIndex' =
          cycleModalScreenshot(modalScreenshotIndex, view.selectedGame, direction)
    /\ shotRun' = RunAfter("modal", view.selectedGame, direction,
                           modalScreenshotIndex)
    /\ UNCHANGED <<screenshotIndices, viewVars>>

(* A click on a cell: openModal shows the first screenshot again *)
OpenShots(game) ==
    /\ view' = cellClick(view, game)
    /\ modalScreenshotIndex' = 0
    /\ shotRun' = [NoRun EXCEPT !.calls = shotRun.calls]
    /\ UNCHANGED <<screenshotIndices, closeTimers, localStorage, searchVars>>

CloseShots ==
    /\ view.showModal
    /\ view' = closeModal(view)
    /\ UNCHANGED <<shotVars, closeTimers, localStorage, searchVars>>

NextShots ==
    \/ \E game \in ShotGames, direction \in Directions :
          CycleCell(game, direction)
            /\ UNCHANGED <<selVars, serverVars, twin, calVars, titleVars, dedupVars, sweepVars>>
    \/ \E direction \in Directions :
          CycleModal(direction)
            /\ UNCHANGED <<selVars, serverVars, twin, calVars, titleVars, dedupVars, sweepVars>>
    \/ \E game \in ShotGames :
          OpenShots(game)
            /\ UNCHANGED <<selVars, serverVars, twin, calVars, titleVars, dedupVars, sweepVars>>
    \/ CloseShots
            /\ UNCHANGED <<selVars, serverVars, twin, calVars, titleVars, dedupVars, sweepVars>>

InitSpecShots ==
    /\ InitIdleSelect /\ InitClock /\ InitRate /\ InitToken /\ InitReqs
    /\ InitGridIdle /\ InitTwin /\ InitView /\ InitCal /\ InitTitleIdle
    /\ InitDedupIdle /\ InitShotsIdle /\ InitUnswept

SpecShots == InitSpecShots /\ [][NextShots]_vars

\* C33: cycling wraps around. Whatever calls of cycleScreenshot and
\* cycleModalScreenshot were made, in either direction, the index shown
\* for a game with n screenshots is within 0..n-1 (0 when n <= 1), in its
\* cell as in the modal; a call on a game with n > 1 moves the index by one
\* in its direction modulo n, a call on a game with n <= 1 changes no
\* index; and after n calls in a row in one direction the index is the one
\* the run started from.
C33_CyclingWraps ==
    /\ [](/\ \A g \in ShotGames :
               LET n == g - 1
                   i == IF g \in DOMAIN screenshotIndices
                        THEN screenshotIndices[g] ELSE 0
               IN  IF n <= 1 THEN i = 0 ELSE i \in 0 .. (n - 1)
          /\ view.selectedGame # NoGame =>
               LET n == view.selectedGame - 1
               IN  IF n <= 1 THEN modalScreenshotIndex = 0
                   ELSE modalScreenshotIndex \in 0 .. (n - 1)
          /\ LET n == shotRun.game - 1
                 i == IF shotRun.target = "modal" THEN modalScreenshotIndex
                      ELSE IF shotRun.game \in DOMAIN screenshotIndices
                      THEN screenshotIndices[shotRun.game] ELSE 0
             IN  (shotRun.len > 0 /\ n > 1 /\ shotRun.len % n = 0)
                    => i = shotRun.start)
    /\ [][shotRun'.calls # shotRun.calls =>
            LET g == shotRun'.game
                n == g - 1
                before == IF shotRun'.target = "modal" THEN modalScreenshotIndex
                          ELSE IF g \in DOMAIN screenshotIndices
                          THEN screenshotIndices[g] ELSE 0
                after  == IF shotRun'.target = "modal" THEN modalScreenshotIndex'
                          ELSE IF g \in DOMAIN screenshotIndices'
                          THEN screenshotIndices'[g] ELSE 0
            IN  IF n <= 1
                THEN UNCHANGED <<screenshotIndices, modalScreenshotIndex>>
                ELSE (after - before - shotRun'.direction) % n = 0
        ]_vars

C33_Witness ==
    /\ shotRun.target = "cell"
    /\ shotRun.game = 4
    /\ shotRun.direction = 0 - 1
    /\ shotRun.len = 3
    /\ shotRun.start = 0
    /\ screenshotIndices = (4 :> 0)
    /\ view.selectedGame = 3
    /\ modalScreenshotIndex = 1

-----------------------------------------------------------------------------
(* The limiter with sweeps next to the limiter without: the same calls at  *)
(* the same instants go to both maps, the sweeps to the first only.        *)

PairedCall(ip) ==
    /\ RateCall(ip)
    /\ unswept' = [map |-> isRateLimited(unswept.map, ip, now).map,
                   limited |-> isRateLimited(unswept.map, ip, now).limited]

NextSweep ==
    \/ \E d \in TickSteps :
          Tick(d) /\ UNCHANGED <<selVars, offServer, rateVars, tokenVars, reqVars, gridVars, gameObs>>
    \/ \E ip \in RateClients :
          PairedCall(ip)
            /\ UNCHANGED <<selVars, twin, viewVars, calVars, titleVars, dedupVars, shotVars,
                           clockVars, tokenVars, reqVars, gridVars, gameObs>>
    \/ Sweep /\ UNCHANGED <<selVars, offServer, clockVars, tokenVars, reqVars, gridVars, gameObs>>

SpecSweep == InitSpecRate /\ [][NextSweep]_vars

\* C34: a sweep cannot be observed through isRateLimited. When the same
\* calls are made at the same instants with sweeps running at any point in
\* between and with no sweep at all, every call has the same result in
\* both runs; the two maps hold the same records but for the ones whose
\* window has passed, which the next call of their client replaces in
\* both.
C34_SweepUnobservable ==
    /\ [](/\ rlLast.called => rlLast.limited = unswept.limited
          /\ \A ip \in ClientIds :
                /\ ip \in DOMAIN searchRateLimit =>
                      /\ ip \in DOMAIN unswept.map
                      /\ unswept.map[ip] = searchRateLimit[ip]
                /\ (ip \in DOMAIN unswept.map /\ ip \notin DOMAIN searchRateLimit)
                      => unswept.map[ip].resetTime < now)
    /\ [][\A ip \in RateClients :
            PairedCall(ip) =>
                /\ rlLast'.limited = unswept'.limited
                /\ ip \in DOMAIN searchRateLimit' /\ ip \in DOMAIN unswept'.map
                /\ searchRateLimit'[ip] = unswept'.map[ip]
        ]_vars

C34_Witness ==
    /\ rlLast.called /\ rlLast.limited /\ unswept.limited
    /\ rlLast.ip = Ip1
    /\ Ip2 \in DOMAIN unswept.map
    /\ Ip2 \notin DOMAIN searchRateLimit
    /\ rlWindow[Ip1].start > 0

\* C35: the records are apart per client id. A call of isRateLimited for
\* one client neither creates nor changes nor removes the record of any
\* other client, and its result is given by the caller's own calls in its
\* own window: it is refused exactly when it is beyond the 30th of them.
C35_RecordsIsolated ==
    [][\A a \in RateClients :
          RateCall(a) =>
              /\ \A b \in ClientIds \ {a} :
                    /\ (b \in DOMAIN searchRateLimit') <=> (b \in DOMAIN searchRateLimit)
                    /\ b \in DOMAIN searchRateLimit =>
                          searchRateLimit'[b] = searchRateLimit[b]
                    /\ rlWindow'[b] = rlWindow[b]
              /\ rlLast'.ip = a
              /\ rlLast'.limited <=> (rlWindow'[a].calls > 30)
              /\ rlLast'.limited <=>
                    /\ a \in DOMAIN searchRateLimit
                    /\ now <= searchRateLimit[a].resetTime
                    /\ searchRateLimit[a].count >= 30
      ]_vars

C35_Witness ==
    /\ DOMAIN searchRateLimit = {Ip1, Ip2}
    /\ searchRateLimit[Ip1].count = 30
    /\ rlWindow[Ip1].refused
    /\ searchRateLimit[Ip1].resetTime > searchRateLimit[Ip2].resetTime
    /\ searchRateLimit[Ip2].count = 2
    /\ rlLast.called /\ rlLast.ip = Ip2 /\ ~rlLast.limited

\* C36: a search request answered 400 leaves the rate-limit map as it was,
\* so an invalid query takes nothing from the client's 30 requests per
\* window; a valid request that the limiter admits adds one to the count
\* of its client's window (or opens a window at count 1), and the end of a
\* handler, with the search answered or failed, gives nothing back.
C36_RejectedNotCounted ==
    /\ [][lastSearch'.n # lastSearch.n =>
            LET ip == lastSearch'.ip
            IN  /\ lastSearch'.status = 400 =>
                      /\ searchRateLimit' = searchRateLimit
                      /\ rlWindow' = rlWindow
                /\ lastSearch'.status = 0 =>
                      /\ ip \in DOMAIN searchRateLimit'
                      /\ searchRateLimit'[ip].count =
                            IF /\ ip \in DOMAIN searchRateLimit
                               /\ now <= searchRateLimit[ip].resetTime
                            THEN searchRateLimit[ip].count + 1
                            ELSE 1
        ]_vars
    /\ [][(\E slot \in Slots : reqs[slot].pc # "idle" /\ reqs'[slot].pc = "idle")
            => searchRateLimit' = searchRateLimit
        ]_vars

C36_Witness ==
    /\ lastSearch.n = 2
    /\ lastSearch.status = 400
    /\ Len(Sanitize(lastSearch.query.text)) = 1
    /\ DOMAIN searchRateLimit = {Ip1}
    /\ searchRateLimit[Ip1].count = RateCeiling - 1
    /\ rlWindow[Ip1].calls = RateCeiling - 1
    /\ ~rlLast.called

\* C37: a /api/games request that ends in a 500 writes neither the memory
\* slot nor the store. No step of a handler other than the one in which it
\* answers 200 changes the slot, the rows of the store or the inserts sent
\* to it; in particular the step that answers 500, after the token
\* exchange or the catalog fetch failed, leaves all three as they are, so
\* that the next request for the date goes to the catalog again.
C37_FailureWritesNothing ==
    /\ [][(/\ \E slot \in Slots : reqs'[slot] # reqs[slot]
           /\ ~(lastResp'.n # lastResp.n /\ lastResp'.status = 200))
             => /\ cachedGrid' = cachedGrid
                /\ dbRows' = dbRows
                /\ dbInserts' = dbInserts
        ]_vars
    /\ [][(lastResp'.n # lastResp.n /\ lastResp'.status = 500)
             => /\ cachedGrid' = cachedGrid
                /\ dbRows' = dbRows
                /\ dbInserts' = dbInserts
                /\ lastResp'.games = << >>
                /\ firstServed' = firstServed
        ]_vars

C37_Witness ==
    /\ today = 1
    /\ gameCount = 2
    /\ lastResp.n = 2
    /\ lastResp.status = 200
    /\ lastResp.fetched
    /\ lastResp.date = 1
    /\ Len(lastResp.games) = DefaultCount
    /\ firstServed[1] = lastResp.games
    /\ cachedGrid = [date |-> 1, games |-> lastResp.games]
    /\ dbConfigured
    /\ dbRows = (1 :> lastResp.games)

\* C38: in every reachable state, racing cold requests with different
\* catalog answers included, when the memory slot holds a grid for a date
\* for which the store holds a row, the slot's games are the row's games.
C38_SlotAgreesWithStore ==
    (/\ cachedGrid # EmptyGrid
     /\ cachedGrid.date \in DOMAIN dbRows)
       => cachedGrid.games = dbRows[cachedGrid.date]

\* C39: the date held by the memory slot never moves backwards: no step
\* replaces the grid of a date in the slot by the grid of an earlier date,
\* also when a handler that read its date before midnight finishes its
\* catalog fetch after a handler of the next day has filled the slot.
C39_SlotDateMonotone ==
    [][(cachedGrid.date \in Dates /\ cachedGrid'.date \in Dates)
          => cachedGrid'.date >= cachedGrid.date
      ]_vars

\* C40: the close that a correct guess schedules closes the modal of the
\* guessed cell only: when the timer fires while the modal of another cell
\* is open (a cell not flipped yet, opened after the guessed one was
\* closed), that modal stays open with its selected game.
C40_TimerClosesOwnModalOnly ==
    [][CloseTimer =>
          ((/\ view.showModal
            /\ view.selectedGame # NoGame
            /\ view.selectedGame \notin view.flippedCells)
              => (/\ view'.showModal
                  /\ view'.selectedGame = view.selectedGame))
      ]_vars

====
